---------------------------- MODULE Spec2Model ----------------------------
(***************************************************************************)
(* Model of the reachable-position store: the board codec (core/state.py), *)
(* the move generator (core/handler.py) and the expansion engine with its  *)
(* shard queue (store.py).                                                  *)
(*                                                                         *)
(* A coordinate is a pair <<horizon, axis>>; a matrix is a sequence of 8   *)
(* rows of 8 cells, row 1 being matrix index 0 of the source; a state      *)
(* (blob) is a sequence of 32 bytes; a hex string is a sequence of         *)
(* one-character strings.                                                  *)
(***************************************************************************)
EXTENDS Integers, Sequences, FiniteSets, TLC

(***************************************************************************)
(* core/constants.py : Flags                                               *)
(***************************************************************************)
VOID == 0
LIGHT_MONOTONE == 1
LIGHT_PIVOT == 2
LIGHT_SLOPE == 3
LIGHT_STRIDE == 4
LIGHT_RADIUS == 5
LIGHT_ANCHOR == 6
HORIZON == 8
DARK_MONOTONE == 10
DARK_PIVOT == 11
DARK_SLOPE == 12
DARK_STRIDE == 13
DARK_RADIUS == 14
DARK_ANCHOR == 15

\* core/handler.py : ModeCheck
MC_VOID == 0
SAME_MODE == 1
DIFFERENT_MODE == -1

\* The value of an absent coordinate or handler (Python's None).
None == <<>>

(***************************************************************************)
(* core/state.py : State                                                   *)
(***************************************************************************)
HexDigits == <<"0","1","2","3","4","5","6","7","8","9","a","b","c","d","e","f">>

\* int(c, 16) of one character; Python's int accepts both cases.
HexValue(c) ==
    CASE c = "A" -> 10 [] c = "B" -> 11 [] c = "C" -> 12
      [] c = "D" -> 13 [] c = "E" -> 14 [] c = "F" -> 15
      [] OTHER -> (CHOOSE i \in 1..16 : HexDigits[i] = c) - 1

RECURSIVE BitOr(_, _)
\* x | y on non-negative integers
BitOr(x, y) ==
    IF x = 0 THEN y
    ELSE IF y = 0 THEN x
    ELSE (IF (x % 2 = 1) \/ (y % 2 = 1) THEN 1 ELSE 0)
         + 2 * BitOr(x \div 2, y \div 2)

\* matrix.flatten(): row-major order, positions 1..64
flatten(matrix) == [k \in 1..64 |-> matrix[((k - 1) \div 8) + 1][((k - 1) % 8) + 1]]

\* to_matrix with the two cells of a byte taken in the other order
to_matrix_low_nibble_first(state) ==
    LET flat == [k \in 1..64 |->
                    IF (k - 1) % 2 = 0
                    THEN state[((k - 1) \div 2) + 1] % 16
                    ELSE state[((k - 1) \div 2) + 1] \div 16]
    IN  [r \in 1..8 |-> [c \in 1..8 |-> flat[(r - 1) * 8 + c]]]

\* State.to_matrix
to_matrix(state) ==
    LET flat == [k \in 1..64 |->
                    IF (k - 1) % 2 = 0
                    THEN state[((k - 1) \div 2) + 1] \div 16
                    ELSE state[((k - 1) \div 2) + 1] % 16]
    IN  [r \in 1..8 |-> [c \in 1..8 |-> flat[(r - 1) * 8 + c]]]

\* State.from_matrix; the blob holds uint8, so the shifted value is cut to 8 bits
from_matrix(matrix) ==
    LET flat_matrix == flatten(matrix)
    IN  [idx \in 1..32 |->
            BitOr((flat_matrix[2 * idx - 1] * 16) % 256, flat_matrix[2 * idx])]

\* to_hex as f'{byte:02X}' would write it
to_hex_uppercase(state) ==
    LET UpperDigits == <<"0","1","2","3","4","5","6","7","8","9","A","B","C","D","E","F">>
    IN  [k \in 1..(2 * Len(state)) |->
            IF (k - 1) % 2 = 0
            THEN UpperDigits[(state[((k - 1) \div 2) + 1] \div 16) + 1]
            ELSE UpperDigits[(state[((k - 1) \div 2) + 1] % 16) + 1]]

\* State.to_hex: f'{byte:02x}' for every byte
to_hex(state) ==
    [k \in 1..(2 * Len(state)) |->
        IF (k - 1) % 2 = 0
        THEN HexDigits[(state[((k - 1) \div 2) + 1] \div 16) + 1]
        ELSE HexDigits[(state[((k - 1) \div 2) + 1] % 16) + 1]]

\* State.from_hex: 32 pairs of characters, each read by int(pair, 16)
from_hex(hex_str) ==
    [idx \in 1..32 |->
        HexValue(hex_str[2 * idx - 1]) * 16 + HexValue(hex_str[2 * idx])]

(***************************************************************************)
(* core/handler.py : Handler                                               *)
(***************************************************************************)
\* Handler.__init__ with hex_str
HandlerFromHex(dark_mode, hex_str, unsafe_anchor) ==
    LET state == from_hex(hex_str)
    IN  [state |-> state, dark_mode |-> dark_mode, unsafe_anchor |-> unsafe_anchor,
         matrix |-> to_matrix(state),
         has_alternate |-> FALSE, alternate_rules |-> <<>>]

\* Handler.__init__ with from_bytes
HandlerFromBytes(dark_mode, from_bytes) ==
    [state |-> from_bytes, dark_mode |-> dark_mode, unsafe_anchor |-> FALSE,
     matrix |-> to_matrix(from_bytes),
     has_alternate |-> FALSE, alternate_rules |-> <<>>]

inbounds(value) == 0 <= value /\ value <= 7

\* self.matrix[7 - horizon][axis]
FlagAt(matrix, horizon, axis) == matrix[(7 - horizon) + 1][axis + 1]

IsAnchorFlag(flag) == flag = DARK_ANCHOR \/ flag = LIGHT_ANCHOR

test_mode(handler, horizon, axis) ==
    LET flag == FlagAt(handler.matrix, horizon, axis)
    IN  IF flag = VOID THEN MC_VOID
        ELSE IF (handler.dark_mode /\ flag > HORIZON)
                \/ (~handler.dark_mode /\ flag < HORIZON)
             THEN SAME_MODE
             ELSE DIFFERENT_MODE

\* rule_monotone with the two-step push allowed from any horizon
rule_monotone_double_anywhere(handler, horizon, axis) ==
    LET orientation == IF handler.dark_mode THEN -1 ELSE 1
        forward == horizon + orientation
        forward_double == forward + orientation
        push == inbounds(forward) /\ test_mode(handler, forward, axis) = MC_VOID
        single == IF push THEN <<<<forward, axis>>>> ELSE <<>>
        double == IF push
                     /\ inbounds(forward_double)
                     /\ test_mode(handler, forward_double, axis) = MC_VOID
                  THEN <<<<forward_double, axis>>>> ELSE <<>>
        left == IF inbounds(forward) /\ inbounds(axis - 1)
                   /\ test_mode(handler, forward, axis - 1) = DIFFERENT_MODE
                THEN <<<<forward, axis - 1>>>> ELSE <<>>
        right == IF inbounds(forward) /\ inbounds(axis + 1)
                    /\ test_mode(handler, forward, axis + 1) = DIFFERENT_MODE
                 THEN <<<<forward, axis + 1>>>> ELSE <<>>
    IN  IF ~handler.unsafe_anchor
        THEN single \o double \o left \o right
        ELSE <<<<forward, axis - 1>>, <<forward, axis + 1>>>>

\* rule_monotone without the two-step push
rule_monotone_single_push(handler, horizon, axis) ==
    LET orientation == IF handler.dark_mode THEN -1 ELSE 1
        forward == horizon + orientation
        push == inbounds(forward) /\ test_mode(handler, forward, axis) = MC_VOID
        single == IF push THEN <<<<forward, axis>>>> ELSE <<>>
        left == IF inbounds(forward) /\ inbounds(axis - 1)
                   /\ test_mode(handler, forward, axis - 1) = DIFFERENT_MODE
                THEN <<<<forward, axis - 1>>>> ELSE <<>>
        right == IF inbounds(forward) /\ inbounds(axis + 1)
                    /\ test_mode(handler, forward, axis + 1) = DIFFERENT_MODE
                 THEN <<<<forward, axis + 1>>>> ELSE <<>>
    IN  IF ~handler.unsafe_anchor
        THEN single \o left \o right
        ELSE <<<<forward, axis - 1>>, <<forward, axis + 1>>>>

\* rule_monotone taking a forward diagonal whenever it holds no piece of its own side
rule_monotone_diagonal_to_void(handler, horizon, axis) ==
    LET orientation == IF handler.dark_mode THEN -1 ELSE 1
        forward == horizon + orientation
        forward_double == forward + orientation
        push == inbounds(forward) /\ test_mode(handler, forward, axis) = MC_VOID
        single == IF push THEN <<<<forward, axis>>>> ELSE <<>>
        double == IF push
                     /\ ((handler.dark_mode /\ horizon = 6)
                         \/ (~handler.dark_mode /\ horizon = 1))
                     /\ inbounds(forward_double)
                     /\ test_mode(handler, forward_double, axis) = MC_VOID
                  THEN <<<<forward_double, axis>>>> ELSE <<>>
        left == IF inbounds(forward) /\ inbounds(axis - 1)
                   /\ test_mode(handler, forward, axis - 1) # SAME_MODE
                THEN <<<<forward, axis - 1>>>> ELSE <<>>
        right == IF inbounds(forward) /\ inbounds(axis + 1)
                    /\ test_mode(handler, forward, axis + 1) # SAME_MODE
                 THEN <<<<forward, axis + 1>>>> ELSE <<>>
    IN  IF ~handler.unsafe_anchor
        THEN single \o double \o left \o right
        ELSE <<<<forward, axis - 1>>, <<forward, axis + 1>>>>

rule_monotone(handler, horizon, axis) ==
    LET orientation == IF handler.dark_mode THEN -1 ELSE 1
        forward == horizon + orientation
        forward_double == forward + orientation
        push == inbounds(forward) /\ test_mode(handler, forward, axis) = MC_VOID
        single == IF push THEN <<<<forward, axis>>>> ELSE <<>>
        double == IF push
                     /\ ((handler.dark_mode /\ horizon = 6)
                         \/ (~handler.dark_mode /\ horizon = 1))
                     /\ inbounds(forward_double)
                     /\ test_mode(handler, forward_double, axis) = MC_VOID
                  THEN <<<<forward_double, axis>>>> ELSE <<>>
        left == IF inbounds(forward) /\ inbounds(axis - 1)
                   /\ test_mode(handler, forward, axis - 1) = DIFFERENT_MODE
                THEN <<<<forward, axis - 1>>>> ELSE <<>>
        right == IF inbounds(forward) /\ inbounds(axis + 1)
                    /\ test_mode(handler, forward, axis + 1) = DIFFERENT_MODE
                 THEN <<<<forward, axis + 1>>>> ELSE <<>>
    IN  IF ~handler.unsafe_anchor
        THEN single \o double \o left \o right
        ELSE <<<<forward, axis - 1>>, <<forward, axis + 1>>>>

\* the test of rule_pivot without the same-side exclusion
PivotKeep_own_side(handler, c) ==
    inbounds(c[1]) /\ inbounds(c[2])

PivotKeep(handler, c) ==
    inbounds(c[1]) /\ inbounds(c[2])
    /\ (test_mode(handler, c[1], c[2]) # SAME_MODE \/ handler.unsafe_anchor)

RECURSIVE PivotSelect(_, _)
\* the loop of rule_pivot over the candidate list
PivotSelect(handler, cands) ==
    IF cands = <<>> THEN <<>>
    ELSE (IF PivotKeep(handler, Head(cands)) THEN <<Head(cands)>> ELSE <<>>)
         \o PivotSelect(handler, Tail(cands))

rule_pivot(handler, horizon, axis) ==
    LET pivot_rules == <<
            <<horizon + 2, axis + 1>>, <<horizon + 2, axis - 1>>,
            <<horizon - 2, axis + 1>>, <<horizon - 2, axis - 1>>,
            <<horizon + 1, axis + 2>>, <<horizon + 1, axis - 2>>,
            <<horizon - 1, axis + 2>>, <<horizon - 1, axis - 2>> >>
    IN  PivotSelect(handler, pivot_rules)

RECURSIVE RayWalk_stops_at_anchor(_, _, _, _, _)
\* the ray walker ending the ray at every piece of the other side, the Anchor included
RayWalk_stops_at_anchor(handler, horizon, axis, dh, da) ==
    LET new_horizon == horizon + dh
        new_axis == axis + da
    IN  IF ~(inbounds(new_horizon) /\ inbounds(new_axis)) THEN <<>>
        ELSE LET mode_check == test_mode(handler, new_horizon, new_axis)
             IN  IF mode_check = SAME_MODE
                 THEN IF handler.unsafe_anchor THEN <<<<new_horizon, new_axis>>>> ELSE <<>>
                 ELSE IF mode_check = DIFFERENT_MODE
                 THEN <<<<new_horizon, new_axis>>>>
                 ELSE <<<<new_horizon, new_axis>>>>
                      \o RayWalk_stops_at_anchor(handler, new_horizon, new_axis, dh, da)

RECURSIVE RayWalk_past_captures(_, _, _, _, _)
\* the ray walker going on behind every piece of the other side
RayWalk_past_captures(handler, horizon, axis, dh, da) ==
    LET new_horizon == horizon + dh
        new_axis == axis + da
    IN  IF ~(inbounds(new_horizon) /\ inbounds(new_axis)) THEN <<>>
        ELSE LET mode_check == test_mode(handler, new_horizon, new_axis)
             IN  IF mode_check = SAME_MODE
                 THEN IF handler.unsafe_anchor THEN <<<<new_horizon, new_axis>>>> ELSE <<>>
                 ELSE <<<<new_horizon, new_axis>>>>
                      \o RayWalk_past_captures(handler, new_horizon, new_axis, dh, da)

RECURSIVE RayWalk(_, _, _, _, _)
\* the while loop of compute_rules for one orientation, from the cell (horizon, axis)
RayWalk(handler, horizon, axis, dh, da) ==
    LET new_horizon == horizon + dh
        new_axis == axis + da
    IN  IF ~(inbounds(new_horizon) /\ inbounds(new_axis)) THEN <<>>
        ELSE LET mode_check == test_mode(handler, new_horizon, new_axis)
             IN  IF mode_check = SAME_MODE
                 THEN IF handler.unsafe_anchor THEN <<<<new_horizon, new_axis>>>> ELSE <<>>
                 ELSE IF mode_check = DIFFERENT_MODE
                 THEN <<<<new_horizon, new_axis>>>>
                      \o (IF handler.unsafe_anchor
                             /\ IsAnchorFlag(FlagAt(handler.matrix, new_horizon, new_axis))
                          THEN RayWalk(handler, new_horizon, new_axis, dh, da)
                          ELSE <<>>)
                 ELSE <<<<new_horizon, new_axis>>>>
                      \o RayWalk(handler, new_horizon, new_axis, dh, da)

RECURSIVE compute_rules(_, _, _, _)
compute_rules(handler, horizon, axis, orientations) ==
    IF orientations = <<>> THEN <<>>
    ELSE RayWalk(handler, horizon, axis, Head(orientations)[1], Head(orientations)[2])
         \o compute_rules(handler, horizon, axis, Tail(orientations))

rule_slope(handler, horizon, axis) ==
    compute_rules(handler, horizon, axis, << <<-1, -1>>, <<-1, 1>>, <<1, -1>>, <<1, 1>> >>)

rule_stride(handler, horizon, axis) ==
    compute_rules(handler, horizon, axis, << <<-1, 0>>, <<1, 0>>, <<0, -1>>, <<0, 1>> >>)

rule_radius(handler, horizon, axis) ==
    compute_rules(handler, horizon, axis,
        << <<-1, 0>>, <<1, 0>>, <<0, -1>>, <<0, 1>>,
           <<-1, -1>>, <<-1, 1>>, <<1, -1>>, <<1, 1>> >>)

\* (new_horizon, new_axis) in rules, for some entry of a rule list
InRules(coord, rules) ==
    \E i \in 1..Len(rules) : \E j \in 1..Len(rules[i][2]) : rules[i][2][j] = coord

\* the test of rule_anchor without the lookup in alternate_rules
AnchorKeep_unfiltered(handler, c) ==
    inbounds(c[1]) /\ inbounds(c[2])
    /\ test_mode(handler, c[1], c[2]) # SAME_MODE

AnchorKeep(handler, c) ==
    inbounds(c[1]) /\ inbounds(c[2])
    /\ test_mode(handler, c[1], c[2]) # SAME_MODE
    /\ ~(handler.has_alternate /\ InRules(c, handler.alternate_rules))

RECURSIVE AnchorSelect(_, _)
\* the loop of rule_anchor over the eight orientations
AnchorSelect(handler, cands) ==
    IF cands = <<>> THEN <<>>
    ELSE (IF AnchorKeep(handler, Head(cands)) THEN <<Head(cands)>> ELSE <<>>)
         \o AnchorSelect(handler, Tail(cands))

rule_anchor(handler, horizon, axis) ==
    LET cands == <<
            <<horizon - 1, axis>>, <<horizon + 1, axis>>,
            <<horizon, axis - 1>>, <<horizon, axis + 1>>,
            <<horizon - 1, axis - 1>>, <<horizon - 1, axis + 1>>,
            <<horizon + 1, axis - 1>>, <<horizon + 1, axis + 1>> >>
    IN  AnchorSelect(handler, cands)

\* the dispatch on the flag of one cell, in all_possible_rules' second sweep
RulesOfCell(handler, horizon, axis) ==
    LET flag == FlagAt(handler.matrix, horizon, axis)
    IN  IF test_mode(handler, horizon, axis) # SAME_MODE THEN <<>>
        ELSE IF flag = DARK_MONOTONE \/ flag = LIGHT_MONOTONE
             THEN << <<<<horizon, axis>>, rule_monotone(handler, horizon, axis)>> >>
        ELSE IF flag = DARK_PIVOT \/ flag = LIGHT_PIVOT
             THEN << <<<<horizon, axis>>, rule_pivot(handler, horizon, axis)>> >>
        ELSE IF flag = DARK_SLOPE \/ flag = LIGHT_SLOPE
             THEN << <<<<horizon, axis>>, rule_slope(handler, horizon, axis)>> >>
        ELSE IF flag = DARK_STRIDE \/ flag = LIGHT_STRIDE
             THEN << <<<<horizon, axis>>, rule_stride(handler, horizon, axis)>> >>
        ELSE IF flag = DARK_RADIUS \/ flag = LIGHT_RADIUS
             THEN << <<<<horizon, axis>>, rule_radius(handler, horizon, axis)>> >>
        ELSE IF flag = DARK_ANCHOR \/ flag = LIGHT_ANCHOR
             THEN << <<<<horizon, axis>>, rule_anchor(handler, horizon, axis)>> >>
        ELSE <<>>

RECURSIVE SweepRules_top_down(_, _)
\* the sweep started at horizon 7, axis 7 and run backwards
SweepRules_top_down(handler, k) ==
    IF k > 63 THEN <<>>
    ELSE RulesOfCell(handler, (63 - k) \div 8, (63 - k) % 8)
         \o SweepRules_top_down(handler, k + 1)

RECURSIVE SweepRules(_, _)
\* the sweep "for horizon in range(8): for axis in range(8)" from flat cell k = 8*horizon + axis
SweepRules(handler, k) ==
    IF k > 63 THEN <<>>
    ELSE RulesOfCell(handler, k \div 8, k % 8) \o SweepRules(handler, k + 1)

RECURSIVE FindAnchor(_, _)
\* the first cell of the moving side, in sweep order, that holds an Anchor
FindAnchor(handler, k) ==
    IF k > 63 THEN None
    ELSE IF test_mode(handler, k \div 8, k % 8) = SAME_MODE
            /\ IsAnchorFlag(FlagAt(handler.matrix, k \div 8, k % 8))
         THEN <<k \div 8, k % 8>>
         ELSE FindAnchor(handler, k + 1)

\* the alternate handler's rules: the opponent's unsafe pass over the same state
AlternateRules(handler) ==
    SweepRules(HandlerFromHex(~handler.dark_mode, to_hex(handler.state), TRUE), 0)

\* the handler after alternate_handler and alternate_rules have been set
WithAlternate(handler) ==
    [handler EXCEPT !.has_alternate = TRUE, !.alternate_rules = AlternateRules(handler)]

\* all_possible_rules taking the anchor-only branch whenever the side has an Anchor
all_possible_rules_anchor_only(handler) ==
    IF ~handler.unsafe_anchor /\ FindAnchor(handler, 0) # None
    THEN << <<FindAnchor(handler, 0),
              rule_anchor(WithAlternate(handler), FindAnchor(handler, 0)[1],
                          FindAnchor(handler, 0)[2])>> >>
    ELSE SweepRules(handler, 0)

\* all_possible_rules without the anchor-only branch
all_possible_rules_full_sweep(handler) ==
    IF ~handler.unsafe_anchor
    THEN SweepRules(WithAlternate(handler), 0)
    ELSE SweepRules(handler, 0)

all_possible_rules(handler) ==
    IF ~handler.unsafe_anchor
    THEN LET anchor_coord == FindAnchor(handler, 0)
             h2 == WithAlternate(handler)
         IN  IF InRules(anchor_coord, h2.alternate_rules)
             THEN << <<anchor_coord, rule_anchor(h2, anchor_coord[1], anchor_coord[2])>> >>
             ELSE SweepRules(h2, 0)
    ELSE SweepRules(handler, 0)

(***************************************************************************)
(* store.py : pack, the records of one expansion                           *)
(***************************************************************************)
\* matrix with one cell replaced
SetCell(matrix, horizon, axis, flag) ==
    [matrix EXCEPT ![(7 - horizon) + 1][axis + 1] = flag]

\* (horizon << 4) | axis
CoordByte(coord) == BitOr(coord[1] * 16, coord[2])

\* the inner loop of pack without source_matrix[7 - source_horizon][source_axis] = VOID
DestRecords_source_kept(handler, source_coord, possible_rules) ==
    LET flag == FlagAt(handler.matrix, source_coord[1], source_coord[2])
    IN  [j \in 1..Len(possible_rules) |->
            [source |-> CoordByte(source_coord),
             destination |-> CoordByte(possible_rules[j]),
             new_state_bytes |->
                from_matrix(SetCell(handler.matrix, possible_rules[j][1],
                                    possible_rules[j][2], flag))]]

\* the inner loop of pack with the vacated source cell marked HORIZON
DestRecords_source_horizon(handler, source_coord, possible_rules) ==
    LET flag == FlagAt(handler.matrix, source_coord[1], source_coord[2])
        source_matrix == SetCell(handler.matrix, source_coord[1], source_coord[2], HORIZON)
    IN  [j \in 1..Len(possible_rules) |->
            [source |-> CoordByte(source_coord),
             destination |-> CoordByte(possible_rules[j]),
             new_state_bytes |->
                from_matrix(SetCell(source_matrix, possible_rules[j][1],
                                    possible_rules[j][2], flag))]]

\* the inner loop of pack over the destinations of one source
DestRecords(handler, source_coord, possible_rules) ==
    LET flag == FlagAt(handler.matrix, source_coord[1], source_coord[2])
        source_matrix == SetCell(handler.matrix, source_coord[1], source_coord[2], VOID)
    IN  [j \in 1..Len(possible_rules) |->
            [source |-> CoordByte(source_coord),
             destination |-> CoordByte(possible_rules[j]),
             new_state_bytes |->
                from_matrix(SetCell(source_matrix, possible_rules[j][1],
                                    possible_rules[j][2], flag))]]

RECURSIVE ConcatRecords(_, _)
ConcatRecords(handler, rules) ==
    IF rules = <<>> THEN <<>>
    ELSE DestRecords(handler, Head(rules)[1], Head(rules)[2])
         \o ConcatRecords(handler, Tail(rules))

\* the (source, destination, new_state_bytes) triples pack writes, in order
PackRecords(handler) == ConcatRecords(handler, all_possible_rules(handler))

(***************************************************************************)
(* core/constants.py : names and sizes.  A string is a sequence of         *)
(* characters; a path is a sequence of components (path.join / path.sep).  *)
(***************************************************************************)
STORE_DIR == <<".", "s", "t", "o", "r", "e">>
HANDLER_DIR == <<".", "h", "a", "n", "d", "l", "e", "r", "s">>
QUEUE_DIR == <<".", "q", "u", "e", "u", "e">>
FILE_EXTENSION == <<".", "r", "a", "w">>
MODE_LIGHT == <<"l", "i", "g", "h", "t">>
MODE_DARK == <<"d", "a", "r", "k">>

MAX_PROCESS_QUEUE == 8192
MAX_QUEUE_SIZE == MAX_PROCESS_QUEUE * 32

\* the characters of the names above in the order of their character codes
CharOrder ==
    <<".", "0", "1", "2", "3", "4", "5", "6", "7", "8", "9", "_",
      "a", "b", "c", "d", "e", "f", "g", "h", "i", "j", "k", "l", "m",
      "n", "o", "p", "q", "r", "s", "t", "u", "v", "w", "x", "y", "z">>

CharCode(c) == CHOOSE i \in 1..Len(CharOrder) : CharOrder[i] = c

RECURSIVE StrLess(_, _)
\* a < b for two strings, as Python compares them
StrLess(a, b) ==
    IF b = <<>> THEN FALSE
    ELSE IF a = <<>> THEN TRUE
    ELSE IF Head(a) = Head(b) THEN StrLess(Tail(a), Tail(b))
    ELSE CharCode(Head(a)) < CharCode(Head(b))

RECURSIVE Decimal(_)
\* str(n) of a non-negative integer
Decimal(n) ==
    IF n < 10 THEN <<CharOrder[n + 2]>>
    ELSE Decimal(n \div 10) \o <<CharOrder[(n % 10) + 2]>>

IsPrefix(p, q) == Len(p) <= Len(q) /\ SubSeq(q, 1, Len(p)) = p

\* path.dirname
dirname(p) == SubSeq(p, 1, Len(p) - 1)

ModeName(dark_mode) == IF dark_mode THEN MODE_DARK ELSE MODE_LIGHT

(***************************************************************************)
(* The filesystem: fs maps the path of every file to its bytes; ds is the  *)
(* set of directories makedirs was called on (their ancestors exist too).  *)
(***************************************************************************)
PutFile(fs, p, content) ==
    [q \in (DOMAIN fs) \cup {p} |-> IF q = p THEN content ELSE fs[q]]

RemoveFile(fs, p) == [q \in (DOMAIN fs) \ {p} |-> fs[q]]

DirExists(ds, p) == \E d \in ds : IsPrefix(p, d)

\* os.path.exists
PathExists(fs, ds, p) == p \in DOMAIN fs \/ DirExists(ds, p)

\* os.listdir, joined with the parent: the entries directly under parent_dir
ListDir(fs, parent_dir) ==
    {q \in DOMAIN fs : Len(q) = Len(parent_dir) + 1 /\ IsPrefix(parent_dir, q)}

RECURSIVE SortedPaths_descending(_)
\* the paths listed from the greatest name to the least
SortedPaths_descending(S) ==
    IF S = {} THEN <<>>
    ELSE LET greatest == CHOOSE q \in S :
                            \A r \in S \ {q} : StrLess(r[Len(r)], q[Len(q)])
         IN  <<greatest>> \o SortedPaths_descending(S \ {greatest})

RECURSIVE SortedPaths(_)
\* sorted(...) of paths in one directory: by the last component
SortedPaths(S) ==
    IF S = {} THEN <<>>
    ELSE LET least == CHOOSE q \in S :
                         \A r \in S \ {q} : StrLess(q[Len(q)], r[Len(r)])
         IN  <<least>> \o SortedPaths(S \ {least})

(***************************************************************************)
(* store.py : DirectoryTrie, check_and_create_path, partitioned_filename   *)
(***************************************************************************)
\* DirectoryTrie.exists on the set of inserted paths
TrieExists(tr, p) == \E q \in tr : IsPrefix(p, q)

\* DirectoryTrie.insert
TrieInsert(tr, p) == tr \cup {p}

\* check_and_create_path deciding by the trie alone, without os.path.exists
check_and_create_path_trie_only(tr, fs, ds, path_to_check, is_file, create_dir) ==
    IF ~TrieExists(tr, path_to_check)
    THEN IF is_file
         THEN IF create_dir
              THEN [ret |-> FALSE,
                    trie |-> TrieInsert(tr, dirname(path_to_check)),
                    dirs |-> ds \cup {dirname(path_to_check)}]
              ELSE [ret |-> FALSE, trie |-> tr, dirs |-> ds]
         ELSE [ret |-> TRUE,
               trie |-> TrieInsert(tr, path_to_check),
               dirs |-> ds \cup {path_to_check}]
    ELSE [ret |-> TRUE, trie |-> tr, dirs |-> ds]

\* check_and_create_path remembering a file it did not find
check_and_create_path_caches_misses(tr, fs, ds, path_to_check, is_file, create_dir) ==
    IF ~TrieExists(tr, path_to_check)
    THEN IF ~PathExists(fs, ds, path_to_check)
         THEN IF is_file
              THEN IF create_dir
                   THEN [ret |-> FALSE,
                         trie |-> TrieInsert(tr, dirname(path_to_check)),
                         dirs |-> ds \cup {dirname(path_to_check)}]
                   ELSE [ret |-> FALSE, trie |-> TrieInsert(tr, path_to_check), dirs |-> ds]
              ELSE [ret |-> TRUE,
                    trie |-> TrieInsert(tr, path_to_check),
                    dirs |-> ds \cup {path_to_check}]
         ELSE [ret |-> TRUE, trie |-> TrieInsert(tr, path_to_check), dirs |-> ds]
    ELSE [ret |-> TRUE, trie |-> tr, dirs |-> ds]

\* returns the result and the trie and directories it leaves
check_and_create_path(tr, fs, ds, path_to_check, is_file, create_dir) ==
    IF ~TrieExists(tr, path_to_check)
    THEN IF ~PathExists(fs, ds, path_to_check)
         THEN IF is_file
              THEN IF create_dir
                   THEN [ret |-> FALSE,
                         trie |-> TrieInsert(tr, dirname(path_to_check)),
                         dirs |-> ds \cup {dirname(path_to_check)}]
                   ELSE [ret |-> FALSE, trie |-> tr, dirs |-> ds]
              ELSE [ret |-> TRUE,
                    trie |-> TrieInsert(tr, path_to_check),
                    dirs |-> ds \cup {path_to_check}]
         ELSE [ret |-> TRUE, trie |-> TrieInsert(tr, path_to_check), dirs |-> ds]
    ELSE [ret |-> TRUE, trie |-> tr, dirs |-> ds]

\* the number of i in range(0, len - 2 * step, step)
PartCount(len, step) ==
    IF len - 2 * step <= 0 THEN 0 ELSE ((len - 2 * step) + step - 1) \div step

\* partitioned_filename with groups of 16 characters, as its docstring has it
partitioned_filename_step_16(parent_dir, hex_str) ==
    LET step == 16
        min(x, y) == IF x < y THEN x ELSE y
        parts == [k \in 1..PartCount(Len(hex_str), step) |->
                    SubSeq(hex_str, (k - 1) * step + 1, min(k * step, Len(hex_str)))]
    IN  parent_dir \o parts \o <<hex_str \o FILE_EXTENSION>>

partitioned_filename(parent_dir, hex_str) ==
    LET step == 8
        min(x, y) == IF x < y THEN x ELSE y
        parts == [k \in 1..PartCount(Len(hex_str), step) |->
                    SubSeq(hex_str, (k - 1) * step + 1, min(k * step, Len(hex_str)))]
    IN  parent_dir \o parts \o <<hex_str \o FILE_EXTENSION>>

\* mode_dir / alt_mode_dir of pack
ModeDir(dark_mode) == <<STORE_DIR, ModeName(dark_mode), HANDLER_DIR>>

\* the store file of a position under a side
StoreFileName(dark_mode, state) ==
    partitioned_filename(ModeDir(dark_mode), to_hex(state))

(***************************************************************************)
(* store.py : QueueController.  A controller is a record; an open reader   *)
(* is its read position, an open writer a flag.  Every method returns the  *)
(* controller and the files it leaves.                                     *)
(***************************************************************************)
QueueController(parent_dir, max_size) ==
    [parent_dir |-> parent_dir, max_size |-> max_size,
     active_writer_name |-> None, active_writer |-> FALSE, active_writer_size |-> 0,
     active_reader_name |-> None, active_reader |-> FALSE, reader_pos |-> 0,
     active_reader_index |-> -1,
     queue_files |-> <<>>, usage_count |-> 0,
     \* whether the file objects active_writer and active_reader are open
     writer_open |-> FALSE, reader_open |-> FALSE]

generate_queue_dir(dark_mode) == <<STORE_DIR, ModeName(dark_mode), QUEUE_DIR>>

\* prefix + str(int(time.time())) + FILE_EXTENSION under parent_dir
generate_file_name(parent_dir, temp, now) ==
    parent_dir \o <<(IF temp THEN <<"t", "e", "m", "p", "_">>
                             ELSE <<"q", "u", "e", "u", "e", "_">>)
                    \o Decimal(now) \o FILE_EXTENSION>>

qc_enter(qc) == [qc EXCEPT !.usage_count = @ + 1]

\* the bytes an open reader has not read yet
ReaderTail(qc, fs) ==
    SubSeq(fs[qc.active_reader_name], qc.reader_pos + 1, Len(fs[qc.active_reader_name]))

\* __exit__ releasing the files at every exit, whatever usage_count is
qc_exit_every_scope(qc, fs, now) ==
    LET q1 == [qc EXCEPT !.usage_count = @ - 1, !.writer_open = FALSE,
                         !.reader_open = FALSE]
    IN  IF q1.active_reader
        THEN [qc |-> [q1 EXCEPT !.reader_pos = Len(fs[qc.active_reader_name])],
              files |-> PutFile(fs, qc.active_reader_name, ReaderTail(qc, fs))]
        ELSE [qc |-> q1, files |-> fs]

qc_exit(qc, fs, now) ==
    LET q0 == [qc EXCEPT !.usage_count = @ - 1]
        q1 == IF q0.usage_count = 0
              THEN [q0 EXCEPT !.writer_open = FALSE, !.reader_open = FALSE]
              ELSE q0
    IN  IF q1.usage_count = 0
        THEN IF q1.active_reader
             THEN \* the tail goes to temp_<now>, which replaces the shard
                  [qc |-> [q1 EXCEPT !.reader_pos = Len(fs[qc.active_reader_name])],
                   files |-> PutFile(
                        RemoveFile(PutFile(fs,
                                generate_file_name(qc.parent_dir, TRUE, now),
                                ReaderTail(qc, fs)),
                            generate_file_name(qc.parent_dir, TRUE, now)),
                        qc.active_reader_name, ReaderTail(qc, fs))]
             ELSE [qc |-> q1, files |-> fs]
        ELSE [qc |-> q1, files |-> fs]

\* open(name, 'wb') creates or truncates the file
next_writer(qc, fs, now) ==
    LET name == generate_file_name(qc.parent_dir, FALSE, now)
    IN  [qc |-> [qc EXCEPT !.active_writer_size = 0,
                           !.active_writer_name = name,
                           !.active_writer = TRUE,
                           !.writer_open = TRUE],
         files |-> PutFile(fs, name, <<>>)]

next_reader(qc, fs) ==
    LET fs1 == IF qc.active_reader THEN RemoveFile(fs, qc.active_reader_name) ELSE fs
        index == qc.active_reader_index + 1
        listed == IF Len(qc.queue_files) = 0
                  THEN SortedPaths(ListDir(fs1, qc.parent_dir))
                  ELSE qc.queue_files
        q1 == [qc EXCEPT !.active_reader_index = index,
                         !.active_reader = FALSE,
                         !.reader_open = FALSE,
                         !.queue_files = listed]
    IN  IF index < Len(listed)
        THEN [qc |-> [q1 EXCEPT !.active_reader_name = listed[index + 1],
                                !.active_reader = TRUE,
                                !.reader_open = TRUE,
                                !.reader_pos = 0],
              files |-> fs1]
        ELSE [qc |-> q1, files |-> fs1]

\* write() that opens the next shard only once the size has passed max_size.
qc_write_rotates_late(qc, fs, now, data) ==
    LET s1 == IF ~qc.active_writer THEN next_writer(qc, fs, now)
              ELSE [qc |-> qc, files |-> fs]
        s2 == IF s1.qc.active_writer_size > s1.qc.max_size
              THEN next_writer(s1.qc, s1.files, now)
              ELSE s1
        name == s2.qc.active_writer_name
    IN  [qc |-> [s2.qc EXCEPT !.active_writer_size = @ + Len(data)],
         files |-> [s2.files EXCEPT ![name] = @ \o data]]

qc_write(qc, fs, now, data) ==
    LET s1 == IF ~qc.active_writer THEN next_writer(qc, fs, now)
              ELSE [qc |-> qc, files |-> fs]
        s2 == IF s1.qc.active_writer_size >= s1.qc.max_size
              THEN next_writer(s1.qc, s1.files, now)
              ELSE s1
        name == s2.qc.active_writer_name
    IN  [qc |-> [s2.qc EXCEPT !.active_writer_size = @ + Len(data)],
         files |-> [s2.files EXCEPT ![name] = @ \o data]]

RECURSIVE ReadLoop(_, _, _)
\* the while loop of QueueController.read up to its next yield or return
ReadLoop(qc, fs, batch_size) ==
    IF ~qc.active_reader
    THEN [done |-> TRUE, data |-> <<>>, qc |-> qc, files |-> fs]
    ELSE LET content == fs[qc.active_reader_name]
             last == IF qc.reader_pos + batch_size < Len(content)
                     THEN qc.reader_pos + batch_size ELSE Len(content)
             data == SubSeq(content, qc.reader_pos + 1, last)
         IN  IF data = <<>>
             THEN LET n == next_reader(qc, fs) IN ReadLoop(n.qc, n.files, batch_size)
             ELSE [done |-> FALSE, data |-> data,
                   qc |-> [qc EXCEPT !.reader_pos = last], files |-> fs]

\* one resumption of the generator qc.read(batch_size); started is FALSE for the first
qc_read(qc, fs, batch_size, started) ==
    IF ~started /\ ~qc.active_reader
    THEN LET n == next_reader(qc, fs) IN ReadLoop(n.qc, n.files, batch_size)
    ELSE ReadLoop(qc, fs, batch_size)

\* a record with the source and destination bytes exchanged
RecordBytes_swapped(source, destination, new_state_bytes) ==
    <<120, destination, source>> \o new_state_bytes

\* write_state_to_store: the bytes of one record
RecordBytes(source, destination, new_state_bytes) ==
    <<120, source, destination>> \o new_state_bytes

(***************************************************************************)
(* Boards the move generator is exercised on                               *)
(***************************************************************************)
\* the highest horizon on which the second and third piece are placed
MaxHorizon == 4

Region == {<<h, a>> : h \in 0..MaxHorizon, a \in 3..5}

AnchorSquares == {<<0, 4>>, <<2, 4>>}

SecondFlags == {DARK_MONOTONE, DARK_PIVOT, DARK_SLOPE, DARK_STRIDE, DARK_RADIUS, DARK_ANCHOR}

ThirdFlags == {VOID, LIGHT_MONOTONE, LIGHT_STRIDE, DARK_MONOTONE, DARK_STRIDE}

\* the matrix holding the given pieces, a piece being <<horizon, axis, flag>>
Place(pieces) ==
    [r \in 1..8 |-> [c \in 1..8 |->
        IF \E p \in pieces : p[1] = 8 - r /\ p[2] = c - 1
        THEN (CHOOSE p \in pieces : p[1] = 8 - r /\ p[2] = c - 1)[3]
        ELSE VOID]]

\* a light Anchor, a dark piece and at most one more piece, on distinct squares
PlacedBoards ==
    {Place({<<sa[1], sa[2], LIGHT_ANCHOR>>, <<s2[1], s2[2], f2>>} \cup
           (IF f3 = VOID THEN {} ELSE {<<s3[1], s3[2], f3>>})) :
        sa \in AnchorSquares, f2 \in SecondFlags, s2 \in Region \ AnchorSquares,
        f3 \in ThirdFlags, s3 \in Region \ AnchorSquares}

\* main.py: the built-in seed board
StandardMatrix ==
    << <<DARK_STRIDE, DARK_PIVOT, DARK_SLOPE, DARK_ANCHOR,
         DARK_RADIUS, DARK_SLOPE, DARK_PIVOT, DARK_STRIDE>>,
       [c \in 1..8 |-> DARK_MONOTONE],
       [c \in 1..8 |-> VOID], [c \in 1..8 |-> VOID],
       [c \in 1..8 |-> VOID], [c \in 1..8 |-> VOID],
       [c \in 1..8 |-> LIGHT_MONOTONE],
       <<LIGHT_STRIDE, LIGHT_PIVOT, LIGHT_SLOPE, LIGHT_RADIUS,
         LIGHT_ANCHOR, LIGHT_SLOPE, LIGHT_PIVOT, LIGHT_STRIDE>> >>

\* the boards of the specification's scenarios S2, S3 and S4
ScenarioS2 == Place({<<3, 3, LIGHT_ANCHOR>>, <<7, 7, DARK_ANCHOR>>})
ScenarioS3 == Place({<<0, 4, LIGHT_ANCHOR>>, <<1, 4, LIGHT_MONOTONE>>, <<7, 4, DARK_STRIDE>>})
ScenarioS4 == Place({<<0, 4, LIGHT_ANCHOR>>, <<4, 4, DARK_RADIUS>>})

\* a Monotone on the first or the last horizon, with each of the three cells
\* of the horizon next to it empty or held by a piece of either side
EdgeBoards ==
    {Place({<<h, a, f>>}
           \cup {<<(IF h = 0 THEN 1 ELSE 6), a + d - 2, n[d]>> : d \in {k \in 1..3 : n[k] # VOID}}) :
        h \in {0, 7}, a \in {0, 3, 7}, f \in {LIGHT_MONOTONE, DARK_MONOTONE},
        n \in [1..3 -> {VOID, LIGHT_PIVOT, DARK_PIVOT}]}

RuleBoards ==
    PlacedBoards \cup EdgeBoards \cup {StandardMatrix, ScenarioS2, ScenarioS3, ScenarioS4}

(***************************************************************************)
(* Seeds of the expansion engine: positions whose reachable graph is small *)
(***************************************************************************)
\* a seed is <<dark_mode, matrix>>: a Monotone with two pushes facing a blocker, its
\* first successor, and a Monotone with a push and two captures among blocked pieces
Seeds ==
    { <<FALSE, Place({<<1, 0, LIGHT_MONOTONE>>, <<4, 0, DARK_MONOTONE>>})>>,
      <<TRUE,  Place({<<2, 0, LIGHT_MONOTONE>>, <<4, 0, DARK_MONOTONE>>})>>,
      <<FALSE, Place({<<6, 0, LIGHT_MONOTONE>>, <<6, 1, LIGHT_MONOTONE>>,
                      <<6, 2, LIGHT_MONOTONE>>, <<7, 0, DARK_MONOTONE>>,
                      <<7, 2, DARK_MONOTONE>>})>> }

\* the batch sizes process_queue is called with: 1..MaxBatch and the default
MaxBatch == 2

BatchSizes == (1..MaxBatch) \cup {MAX_PROCESS_QUEUE}

\* time.time() at the start, and how far the clock may advance
Epoch == 1730000000
MaxTicks == 1

(***************************************************************************)
(* State                                                                   *)
(***************************************************************************)
VARIABLES
    pc,          \* the position of the program
    clock,       \* int(time.time())
    files,       \* the files on disk: path -> bytes
    dirs,        \* the directories created on disk
    trie,        \* store.py: directory_trie of the running process
    handler,     \* the Handler being expanded, or None
    pending,     \* pack: the records its loops have still to write
    ret,         \* pack: its return value; for a queue on its own, whether the
                 \* last exit was an inner one
    in_pq,       \* TRUE while pack runs inside process_queue
    qc,          \* process_queue: the controller of the queue it drains, or None
    alt_qc,      \* the controller pack writes to, or None
    gen_started, \* process_queue: qc.read(32) has been resumed at least once
    count,       \* process_queue: count
    batch_size,  \* process_queue: batch_size
    dark_mode,   \* process_queue: dark_mode
    q_before,    \* observation: the records of the drained queue when the pass began
    handed,      \* observation: the records the pass handed to pack
    moves,       \* the value all_possible_rules returned for handler
    records,     \* the records pack derives from handler
    codec_in,    \* the matrix or the blob given to the board codec
    codec_out,   \* what the codec made of it
    runs,        \* how many times the entry point has been started
    stored_before \* observation: the store files there were when the pass began

vars == <<pc, clock, files, dirs, trie, handler, pending, ret, in_pq, qc, alt_qc,
          gen_started, count, batch_size, dark_mode, q_before, handed, moves, records,
          codec_in, codec_out, runs, stored_before>>

codec_vars == <<codec_in, codec_out>>

engine_vars == <<clock, files, dirs, trie, pending, ret, in_pq, qc, alt_qc,
                 gen_started, count, batch_size, dark_mode, q_before, handed>>

\* the 32-byte records of a byte string
RecordsOf(bytes) ==
    [k \in 1..(Len(bytes) \div 32) |-> SubSeq(bytes, 32 * (k - 1) + 1, 32 * k)]

RECURSIVE ConcatFiles(_, _)
ConcatFiles(fs, names) ==
    IF names = <<>> THEN <<>> ELSE fs[Head(names)] \o ConcatFiles(fs, Tail(names))

\* the records waiting in a side's queue directory, in the order a reader meets them
QueueRecords(fs, dark) ==
    RecordsOf(ConcatFiles(fs, SortedPaths(ListDir(fs, generate_queue_dir(dark)))))

EngineInit ==
    /\ clock = Epoch
    /\ files = <<>>
    /\ dirs = {}
    /\ trie = {}
    /\ pending = <<>>
    /\ ret = FALSE
    /\ in_pq = FALSE
    /\ qc = None
    /\ alt_qc = None
    /\ gen_started = FALSE
    /\ count = 0
    /\ batch_size = 0
    /\ dark_mode = FALSE
    /\ q_before = <<>>
    /\ handed = <<>>
    /\ codec_in = None
    /\ codec_out = None
    /\ runs = 0
    /\ stored_before = {}

Init ==
    /\ pc = "idle"
    /\ handler = None
    /\ moves = <<>>
    /\ records = <<>>
    /\ EngineInit

(***************************************************************************)
(* store.py : pack                                                         *)
(***************************************************************************)
\* a call pack(handler) from the top level, with no controller
CallPack ==
    /\ pc = "idle"
    /\ \E seed \in Seeds :
          handler' = HandlerFromHex(seed[1], to_hex(from_matrix(seed[2])), FALSE)
    /\ pc' = "pack"
    /\ in_pq' = FALSE
    /\ qc' = None
    /\ alt_qc' = None
    /\ UNCHANGED <<clock, files, dirs, trie, pending, ret, gen_started, count,
                   batch_size, dark_mode, q_before, handed, moves, records>>
    /\ UNCHANGED <<codec_vars, runs, stored_before>>

\* pack calling all_possible_rules before it looks for the store file
PackBegin_enumerates_first ==
    /\ pc = "pack"
    /\ LET file_name == StoreFileName(handler.dark_mode, handler.state)
           c1 == check_and_create_path(trie, files, dirs, ModeDir(handler.dark_mode),
                                       FALSE, FALSE)
           c2 == check_and_create_path(c1.trie, files, c1.dirs,
                                       ModeDir(~handler.dark_mode), FALSE, FALSE)
           c3 == check_and_create_path(c2.trie, files, c2.dirs, file_name, TRUE, TRUE)
           alt_queue_dir == generate_queue_dir(~handler.dark_mode)
           c4 == IF alt_qc = None
                 THEN check_and_create_path(c3.trie, files, c3.dirs, alt_queue_dir,
                                            FALSE, TRUE)
                 ELSE c3
           controller == IF alt_qc = None
                         THEN QueueController(alt_queue_dir, MAX_QUEUE_SIZE)
                         ELSE alt_qc
       IN  IF c3.ret
           THEN /\ ret' = FALSE
                /\ pc' = "pack_ret"
                /\ trie' = c3.trie
                /\ dirs' = c3.dirs
                /\ handler' = WithAlternate(handler)
                /\ UNCHANGED <<files, alt_qc, pending>>
           ELSE /\ trie' = c4.trie
                /\ dirs' = c4.dirs
                /\ alt_qc' = qc_enter(controller)
                /\ files' = PutFile(files, file_name, <<>>)
                /\ pending' = PackRecords(handler)
                /\ handler' = WithAlternate(handler)
                /\ pc' = "pack_write"
                /\ UNCHANGED ret
    /\ UNCHANGED <<clock, in_pq, qc, gen_started, count, batch_size, dark_mode,
                   q_before, handed, moves, records>>
    /\ UNCHANGED <<codec_vars, runs, stored_before>>

\* pack up to the first iteration of its loops: the three path checks, the
\* controller, the with statement and the call of all_possible_rules
PackBegin ==
    /\ pc = "pack"
    /\ LET file_name == StoreFileName(handler.dark_mode, handler.state)
           c1 == check_and_create_path(trie, files, dirs, ModeDir(handler.dark_mode),
                                       FALSE, FALSE)
           c2 == check_and_create_path(c1.trie, files, c1.dirs,
                                       ModeDir(~handler.dark_mode), FALSE, FALSE)
           c3 == check_and_create_path(c2.trie, files, c2.dirs, file_name, TRUE, TRUE)
           alt_queue_dir == generate_queue_dir(~handler.dark_mode)
           c4 == IF alt_qc = None
                 THEN check_and_create_path(c3.trie, files, c3.dirs, alt_queue_dir,
                                            FALSE, TRUE)
                 ELSE c3
           controller == IF alt_qc = None
                         THEN QueueController(alt_queue_dir, MAX_QUEUE_SIZE)
                         ELSE alt_qc
       IN  IF c3.ret
           THEN /\ ret' = FALSE
                /\ pc' = "pack_ret"
                /\ trie' = c3.trie
                /\ dirs' = c3.dirs
                /\ UNCHANGED <<files, alt_qc, pending, handler>>
           ELSE /\ trie' = c4.trie
                /\ dirs' = c4.dirs
                /\ alt_qc' = qc_enter(controller)
                /\ files' = PutFile(files, file_name, <<>>)
                /\ pending' = PackRecords(handler)
                /\ handler' = WithAlternate(handler)
                /\ pc' = "pack_write"
                /\ UNCHANGED ret
    /\ UNCHANGED <<clock, in_pq, qc, gen_started, count, batch_size, dark_mode,
                   q_before, handed, moves, records>>
    /\ UNCHANGED <<codec_vars, runs, stored_before>>

\* the successor's file name taken under the expanded side's own partition
SuccessorFileName_own_side(h, new_state_bytes) ==
    partitioned_filename(ModeDir(h.dark_mode), to_hex(new_state_bytes))

\* new_state_file_name: the successor's store file under the other side
SuccessorFileName(h, new_state_bytes) ==
    partitioned_filename(ModeDir(~h.dark_mode), to_hex(new_state_bytes))

\* one iteration of the inner loop of pack: the record goes to the store file, and
\* the successor to the queue when it has no store file under the other side
PackWrite ==
    /\ pc = "pack_write"
    /\ pending # <<>>
    /\ LET rec == Head(pending)
           file_name == StoreFileName(handler.dark_mode, handler.state)
           fs1 == [files EXCEPT ![file_name] =
                      @ \o RecordBytes(rec.source, rec.destination, rec.new_state_bytes)]
           new_state_file_name == SuccessorFileName(handler, rec.new_state_bytes)
           c == check_and_create_path(trie, fs1, dirs, new_state_file_name, TRUE, FALSE)
           w == IF ~c.ret THEN qc_write(alt_qc, fs1, clock, rec.new_state_bytes)
                ELSE [qc |-> alt_qc, files |-> fs1]
       IN  /\ trie' = c.trie
           /\ dirs' = c.dirs
           /\ alt_qc' = w.qc
           /\ files' = w.files
    /\ pending' = Tail(pending)
    /\ UNCHANGED <<pc, clock, handler, ret, in_pq, qc, gen_started, count, batch_size,
                   dark_mode, q_before, handed, moves, records>>
    /\ UNCHANGED <<codec_vars, runs, stored_before>>

\* the loops are over: the with statement closes the store file and leaves the controller
PackEnd ==
    /\ pc = "pack_write"
    /\ pending = <<>>
    /\ LET x == qc_exit(alt_qc, files, clock)
       IN  /\ alt_qc' = x.qc
           /\ files' = x.files
    /\ ret' = TRUE
    /\ pc' = "pack_ret"
    /\ UNCHANGED <<clock, dirs, trie, handler, pending, in_pq, qc, gen_started, count,
                   batch_size, dark_mode, q_before, handed, moves, records>>
    /\ UNCHANGED <<codec_vars, runs, stored_before>>

\* pack has returned: process_queue counts it, the top level is done
PackReturn ==
    /\ pc = "pack_ret"
    /\ IF in_pq
       THEN /\ count' = IF ret THEN count + 1 ELSE count
            /\ pc' = "pq_read"
            /\ UNCHANGED alt_qc
       ELSE /\ pc' = "idle"
            /\ alt_qc' = None
            /\ UNCHANGED count
    /\ handler' = None
    /\ ret' = FALSE
    /\ UNCHANGED <<clock, files, dirs, trie, pending, in_pq, qc,
                   gen_started, batch_size, dark_mode, q_before, handed, moves, records>>
    /\ UNCHANGED <<codec_vars, runs, stored_before>>

(***************************************************************************)
(* store.py : process_queue                                                *)
(***************************************************************************)
\* process_queue giving both controllers the queue directory of the drained side
ProcessQueueCall_one_directory(dark, batch) ==
    /\ LET queue_dir == generate_queue_dir(dark)
           alt_queue_dir == generate_queue_dir(dark)
           c1 == check_and_create_path(trie, files, dirs, queue_dir, FALSE, FALSE)
           c2 == check_and_create_path(c1.trie, files, c1.dirs, alt_queue_dir,
                                       FALSE, FALSE)
       IN  /\ trie' = c2.trie
           /\ dirs' = c2.dirs
           /\ qc' = qc_enter(QueueController(queue_dir, MAX_QUEUE_SIZE))
           /\ alt_qc' = qc_enter(QueueController(alt_queue_dir, MAX_QUEUE_SIZE))
           /\ dark_mode' = dark
           /\ batch_size' = batch
           /\ q_before' = QueueRecords(files, dark)
    /\ count' = 0
    /\ gen_started' = FALSE
    /\ in_pq' = TRUE
    /\ handed' = <<>>
    /\ handler' = None
    /\ pc' = "pq_read"
    /\ UNCHANGED <<clock, files, pending, ret, moves, records>>
    /\ stored_before' = {p \in DOMAIN files : \E d \in BOOLEAN : IsPrefix(ModeDir(d), p)}
    /\ UNCHANGED <<codec_vars, runs>>

\* process_queue(dark, batch) up to the for statement
ProcessQueueCall(dark, batch) ==
    /\ LET queue_dir == generate_queue_dir(dark)
           alt_queue_dir == generate_queue_dir(~dark)
           c1 == check_and_create_path(trie, files, dirs, queue_dir, FALSE, FALSE)
           c2 == check_and_create_path(c1.trie, files, c1.dirs, alt_queue_dir,
                                       FALSE, FALSE)
       IN  /\ trie' = c2.trie
           /\ dirs' = c2.dirs
           /\ qc' = qc_enter(QueueController(queue_dir, MAX_QUEUE_SIZE))
           /\ alt_qc' = qc_enter(QueueController(alt_queue_dir, MAX_QUEUE_SIZE))
           /\ dark_mode' = dark
           /\ batch_size' = batch
           /\ q_before' = QueueRecords(files, dark)
    /\ count' = 0
    /\ gen_started' = FALSE
    /\ in_pq' = TRUE
    /\ handed' = <<>>
    /\ handler' = None
    /\ pc' = "pq_read"
    /\ UNCHANGED <<clock, files, pending, ret, moves, records>>
    /\ stored_before' = {p \in DOMAIN files : \E d \in BOOLEAN : IsPrefix(ModeDir(d), p)}
    /\ UNCHANGED <<codec_vars, runs>>

\* a call of process_queue from the top level, for either side and any batch size
ProcessQueueBegin ==
    /\ pc = "idle"
    /\ \E dark \in BOOLEAN, batch \in BatchSizes : ProcessQueueCall(dark, batch)

\* the loop of process_queue leaving on the number of records handed to pack,
\* one later than batch_size
ProcessQueueRead_counts_every_record ==
    /\ pc = "pq_read"
    /\ LET r == qc_read(qc, files, 32, gen_started)
       IN  /\ qc' = r.qc
           /\ files' = r.files
           /\ IF r.done \/ Len(handed) >= batch_size + 1
              THEN /\ pc' = "pq_exit"
                   /\ UNCHANGED <<handler, handed>>
              ELSE /\ handler' = HandlerFromBytes(dark_mode, r.data)
                   /\ handed' = Append(handed, r.data)
                   /\ pc' = "pack"
    /\ gen_started' = TRUE
    /\ UNCHANGED <<clock, dirs, trie, pending, ret, in_pq, alt_qc, count, batch_size,
                   dark_mode, q_before, moves, records>>
    /\ UNCHANGED <<codec_vars, runs, stored_before>>

\* the for statement takes the next state from qc.read(32); the body breaks when
\* count has reached batch_size and calls pack otherwise
ProcessQueueRead ==
    /\ pc = "pq_read"
    /\ LET r == qc_read(qc, files, 32, gen_started)
       IN  /\ qc' = r.qc
           /\ files' = r.files
           /\ IF r.done \/ count >= batch_size
              THEN /\ pc' = "pq_exit"
                   /\ UNCHANGED <<handler, handed>>
              ELSE /\ handler' = HandlerFromBytes(dark_mode, r.data)
                   /\ handed' = Append(handed, r.data)
                   /\ pc' = "pack"
    /\ gen_started' = TRUE
    /\ UNCHANGED <<clock, dirs, trie, pending, ret, in_pq, alt_qc, count, batch_size,
                   dark_mode, q_before, moves, records>>
    /\ UNCHANGED <<codec_vars, runs, stored_before>>

\* the with statement of process_queue is left: alt_qc first, then qc
ProcessQueueEnd ==
    /\ pc = "pq_exit"
    /\ LET x == qc_exit(alt_qc, files, clock)
           y == qc_exit(qc, x.files, clock)
       IN  /\ alt_qc' = x.qc
           /\ qc' = y.qc
           /\ files' = y.files
    /\ pc' = "pq_done"
    /\ UNCHANGED <<clock, dirs, trie, handler, pending, ret, in_pq, gen_started, count,
                   batch_size, dark_mode, q_before, handed, moves, records>>
    /\ UNCHANGED <<codec_vars, runs, stored_before>>

\* process_queue has returned to the top level
ProcessQueueReturn ==
    /\ pc = "pq_done"
    /\ pc' = "idle"
    /\ in_pq' = FALSE
    /\ qc' = None
    /\ alt_qc' = None
    /\ gen_started' = FALSE
    /\ count' = 0
    /\ batch_size' = 0
    /\ dark_mode' = FALSE
    /\ q_before' = <<>>
    /\ handed' = <<>>
    /\ UNCHANGED <<clock, files, dirs, trie, handler, pending, ret, moves, records>>
    /\ stored_before' = {}
    /\ UNCHANGED <<codec_vars, runs>>

(***************************************************************************)
(* The environment                                                         *)
(***************************************************************************)
\* a second passes
Tick ==
    /\ clock < Epoch + MaxTicks
    /\ clock' = clock + 1
    /\ UNCHANGED <<pc, files, dirs, trie, handler, pending, ret, in_pq, qc, alt_qc,
                   gen_started, count, batch_size, dark_mode, q_before, handed,
                   moves, records>>
    /\ UNCHANGED <<codec_vars, runs, stored_before>>

Next ==
    \/ CallPack
    \/ PackBegin
    \/ PackWrite
    \/ PackEnd
    \/ PackReturn
    \/ ProcessQueueBegin
    \/ ProcessQueueRead
    \/ ProcessQueueEnd
    \/ ProcessQueueReturn
    \/ Tick

Spec == Init /\ [][Next]_vars

(***************************************************************************)
(* main.py : the entry point, run again and again                          *)
(***************************************************************************)
\* the seed boards of the entry point: small boards in place of the built-in
\* one, the first with a game of more than three plies, the second with one ply
MainSeeds ==
    { Place({<<1, 0, LIGHT_MONOTONE>>, <<6, 0, DARK_MONOTONE>>}),
      Place({<<6, 0, LIGHT_MONOTONE>>, <<6, 1, LIGHT_MONOTONE>>, <<6, 2, LIGHT_MONOTONE>>,
             <<7, 0, DARK_MONOTONE>>, <<7, 2, DARK_MONOTONE>>}) }

\* path.exists(STORE_DIR) decides between the drain and the bootstrap, which
\* packs a seed under the light side
MainBegin ==
    /\ pc = "idle"
    /\ IF PathExists(files, dirs, <<STORE_DIR>>)
       THEN /\ pc' = "main_dark"
            /\ UNCHANGED handler
       ELSE /\ pc' = "pack"
            /\ \E seed \in MainSeeds :
                  handler' = HandlerFromHex(FALSE, to_hex(from_matrix(seed)), FALSE)
    /\ UNCHANGED <<clock, files, dirs, trie, pending, ret, in_pq, qc, alt_qc,
                   gen_started, count, batch_size, dark_mode, q_before, handed,
                   moves, records>>
    /\ UNCHANGED <<codec_vars, runs, stored_before>>

\* process_queue(True), then process_queue(False), with the default batch_size
MainDrain ==
    /\ pc \in {"main_dark", "main_light"}
    /\ ProcessQueueCall(pc = "main_dark", MAX_PROCESS_QUEUE)

\* process_queue has returned to main.py
MainResume ==
    /\ pc = "pq_done"
    /\ pc' = IF dark_mode THEN "main_light" ELSE "main_done"
    /\ in_pq' = FALSE
    /\ qc' = None
    /\ alt_qc' = None
    /\ gen_started' = FALSE
    /\ count' = 0
    /\ batch_size' = 0
    /\ dark_mode' = FALSE
    /\ q_before' = <<>>
    /\ handed' = <<>>
    /\ UNCHANGED <<clock, files, dirs, trie, handler, pending, ret, moves, records>>
    /\ stored_before' = {}
    /\ UNCHANGED <<codec_vars, runs>>

\* the run of the entry point is over
MainEnd ==
    /\ pc = "main_done"
    /\ pc' = "idle"
    /\ UNCHANGED <<clock, files, dirs, trie, handler, pending, ret, in_pq, qc, alt_qc,
                   gen_started, count, batch_size, dark_mode, q_before, handed,
                   moves, records>>
    /\ UNCHANGED <<codec_vars, runs, stored_before>>

NextMain ==
    \/ MainBegin
    \/ MainDrain
    \/ MainResume
    \/ MainEnd
    \/ PackBegin
    \/ PackWrite
    \/ PackEnd
    \/ PackReturn
    \/ ProcessQueueRead
    \/ ProcessQueueEnd
    \/ Tick

SpecMain == Init /\ [][NextMain]_vars

(***************************************************************************)
(* main.py from an empty directory: the built-in seed board                *)
(***************************************************************************)

\* how many times the entry point is started
MaxRuns == 2

\* the batch size of the passes of the later runs, scaled down from
\* MAX_PROCESS_QUEUE: the queues of the seed grow by a factor of twenty or
\* more with every pass
SeedBatch == 2

\* main.py started where nothing but the program exists: the first run packs
\* init_state under the light side, later runs drain the two queues once each
SeedBegin ==
    /\ pc = "idle"
    /\ runs < MaxRuns
    /\ runs' = runs + 1
    /\ IF PathExists(files, dirs, <<STORE_DIR>>)
       THEN /\ pc' = "main_dark"
            /\ UNCHANGED handler
       ELSE /\ pc' = "pack"
            /\ handler' = HandlerFromHex(FALSE, to_hex(from_matrix(StandardMatrix)), FALSE)
    /\ UNCHANGED <<clock, files, dirs, trie, pending, ret, in_pq, qc, alt_qc,
                   gen_started, count, batch_size, dark_mode, q_before, handed,
                   moves, records>>
    /\ UNCHANGED <<codec_vars, stored_before>>

\* process_queue(True), then process_queue(False), of a later run
SeedDrain ==
    /\ pc \in {"main_dark", "main_light"}
    /\ ProcessQueueCall(pc = "main_dark", SeedBatch)

NextSeed ==
    \/ SeedBegin
    \/ SeedDrain
    \/ MainResume
    \/ MainEnd
    \/ PackBegin
    \/ PackWrite
    \/ PackEnd
    \/ PackReturn
    \/ ProcessQueueRead
    \/ ProcessQueueEnd
    \/ Tick

SpecSeed == Init /\ [][NextSeed]_vars

(***************************************************************************)
(* The move generator on its own: all_possible_rules and the records pack  *)
(* derives from it, for every board of RuleBoards and either side to move  *)
(***************************************************************************)
InitRules ==
    /\ pc = "rules"
    /\ \E m \in RuleBoards, d \in BOOLEAN :
          handler = HandlerFromHex(d, to_hex(from_matrix(m)), FALSE)
    /\ moves = <<>>
    /\ records = <<>>
    /\ EngineInit

Enumerate ==
    /\ pc = "rules"
    /\ pc' = "enumerated"
    /\ moves' = all_possible_rules(handler)
    /\ records' = PackRecords(handler)
    /\ handler' = WithAlternate(handler)
    /\ UNCHANGED engine_vars
    /\ UNCHANGED <<codec_vars, runs, stored_before>>

NextRules == Enumerate

SpecRules == InitRules /\ [][NextRules]_vars

(***************************************************************************)
(* The shard queue on its own: controllers opened one after the other on   *)
(* one queue directory, each used either to write blobs or to read them,   *)
(* with nested scopes, as pack and process_queue use them                  *)
(***************************************************************************)
\* max_queue_shard_bytes of scenario S6: four blobs
QueueMaxSize == 4 * 32
MaxWrites == 10
MaxQueueTicks == 2
MaxNesting == 2

QueueDir == generate_queue_dir(FALSE)

\* the i-th blob written: 32 bytes that tell it from every other
Blob(i) == [k \in 1..32 |-> i]

InitQueue ==
    /\ pc = "q_idle"
    /\ handler = None
    /\ moves = <<>>
    /\ records = <<>>
    /\ EngineInit

\* with QueueController(queue_dir, max_size) as qc, to write or to read
QueueOpen ==
    /\ pc = "q_idle"
    /\ \E use \in {"q_write", "q_read"} : pc' = use
    /\ qc' = qc_enter(QueueController(QueueDir, QueueMaxSize))
    /\ count' = 0
    /\ gen_started' = FALSE
    /\ handed' = <<>>
    /\ q_before' = QueueRecords(files, FALSE)
    /\ ret' = FALSE
    /\ UNCHANGED <<clock, files, dirs, trie, handler, pending, in_pq, alt_qc,
                   batch_size, dark_mode, moves, records>>
    /\ UNCHANGED <<codec_vars, runs, stored_before>>

\* an inner "with qc" on the controller in use
QueueEnter ==
    /\ pc \in {"q_write", "q_read", "q_drained"}
    /\ qc.usage_count < MaxNesting
    /\ qc' = qc_enter(qc)
    /\ UNCHANGED <<pc, clock, files, dirs, trie, handler, pending, ret, in_pq, alt_qc,
                   gen_started, count, batch_size, dark_mode, q_before, handed,
                   moves, records>>
    /\ UNCHANGED <<codec_vars, runs, stored_before>>

\* qc.write(blob); records is the log of the blobs written, count those of this controller
QueueWrite ==
    /\ pc = "q_write"
    /\ Len(records) < MaxWrites
    /\ LET w == qc_write(qc, files, clock, Blob(Len(records) + 1))
       IN  /\ qc' = w.qc
           /\ files' = w.files
    /\ records' = Append(records, Blob(Len(records) + 1))
    /\ count' = count + 1
    /\ UNCHANGED <<pc, clock, dirs, trie, handler, pending, ret, in_pq, alt_qc,
                   gen_started, batch_size, dark_mode, q_before, handed, moves>>
    /\ UNCHANGED <<codec_vars, runs, stored_before>>

\* one resumption of the generator qc.read(32); handed is the log of the blobs it yielded
QueueRead ==
    /\ pc = "q_read"
    /\ LET r == qc_read(qc, files, 32, gen_started)
       IN  /\ qc' = r.qc
           /\ files' = r.files
           /\ IF r.done
              THEN pc' = "q_drained" /\ UNCHANGED handed
              ELSE pc' = pc /\ handed' = Append(handed, r.data)
    /\ gen_started' = TRUE
    /\ UNCHANGED <<clock, dirs, trie, handler, pending, ret, in_pq, alt_qc, count,
                   batch_size, dark_mode, q_before, moves, records>>
    /\ UNCHANGED <<codec_vars, runs, stored_before>>

\* a with statement on the controller is left
QueueExit ==
    /\ pc \in {"q_write", "q_read", "q_drained"}
    /\ LET x == qc_exit(qc, files, clock)
       IN  /\ qc' = x.qc
           /\ files' = x.files
           /\ pc' = IF x.qc.usage_count = 0 THEN "q_idle" ELSE pc
           /\ ret' = (x.qc.usage_count > 0)
    /\ UNCHANGED <<clock, dirs, trie, handler, pending, in_pq, alt_qc,
                   gen_started, count, batch_size, dark_mode, q_before, handed,
                   moves, records>>
    /\ UNCHANGED <<codec_vars, runs, stored_before>>

\* a second passes
QueueTick ==
    /\ clock < Epoch + MaxQueueTicks
    /\ clock' = clock + 1
    /\ UNCHANGED <<pc, files, dirs, trie, handler, pending, ret, in_pq, qc, alt_qc,
                   gen_started, count, batch_size, dark_mode, q_before, handed,
                   moves, records>>
    /\ UNCHANGED <<codec_vars, runs, stored_before>>

NextQueue ==
    \/ QueueOpen
    \/ QueueEnter
    \/ QueueWrite
    \/ QueueRead
    \/ QueueExit
    \/ QueueTick

SpecQueue == InitQueue /\ [][NextQueue]_vars

(***************************************************************************)
(* The board codec on its own                                              *)
(*                                                                         *)
(* A board and a blob are drawn, and the four conversions of State are     *)
(* applied one call at a time: the board is packed, written as hex, parsed *)
(* and unpacked; the blob is unpacked and packed again.  codec_out lists   *)
(* the value each call returned, in call order.                            *)
(***************************************************************************)

\* Boards the codec is given: every cell takes a 4-bit value (the cells of
\* the starting position, or a pattern that runs through all sixteen values)
CodecBoards ==
    { StandardMatrix,
      [r \in 1..8 |-> [c \in 1..8 |-> (5 * ((r - 1) * 8 + (c - 1)) + 3) % 16]] }

\* board with the two cells packed into byte i (0..31) set to the halves of b
BoardWith(board, i, b) ==
    [r \in 1..8 |-> [c \in 1..8 |->
        IF (r - 1) * 8 + (c - 1) = 2 * i THEN b \div 16
        ELSE IF (r - 1) * 8 + (c - 1) = 2 * i + 1 THEN b % 16
        ELSE board[r][c]]]

\* a 32-byte blob (np.uint8 values) with byte i (0..31) set to b
BlobWith(i, b) == [k \in 1..32 |-> IF k = i + 1 THEN b ELSE (37 * k + 11) % 256]

InitCodec ==
    /\ pc = "codec_board"
    /\ clock = Epoch
    /\ files = <<>>
    /\ dirs = {}
    /\ trie = {}
    /\ pending = <<>>
    /\ ret = FALSE
    /\ in_pq = FALSE
    /\ qc = None
    /\ alt_qc = None
    /\ gen_started = FALSE
    /\ count = 0
    /\ batch_size = 0
    /\ dark_mode = FALSE
    /\ q_before = <<>>
    /\ handed = <<>>
    /\ handler = None
    /\ moves = <<>>
    /\ records = <<>>
    /\ \E board \in CodecBoards, i \in 0..31, b \in 0..255 :
          codec_in = [board |-> BoardWith(board, i, b), blob |-> BlobWith(i, b)]
    /\ codec_out = <<>>
    /\ runs = 0
    /\ stored_before = {}

\* State().from_matrix(board), and State().from_matrix(matrix) of the unpacked blob
CodecFromMatrix ==
    /\ pc \in {"codec_board", "codec_repack"}
    /\ codec_out' = Append(codec_out,
                           IF pc = "codec_board"
                           THEN from_matrix(codec_in.board)
                           ELSE from_matrix(codec_out[Len(codec_out)]))
    /\ pc' = IF pc = "codec_board" THEN "codec_hex" ELSE "codec_done"
    /\ UNCHANGED <<clock, files, dirs, trie, handler, pending, ret, in_pq, qc, alt_qc,
                   gen_started, count, batch_size, dark_mode, q_before, handed,
                   moves, records, codec_in, runs, stored_before>>

\* state.to_hex()
CodecToHex ==
    /\ pc = "codec_hex"
    /\ codec_out' = Append(codec_out, to_hex(codec_out[Len(codec_out)]))
    /\ pc' = "codec_parse"
    /\ UNCHANGED <<clock, files, dirs, trie, handler, pending, ret, in_pq, qc, alt_qc,
                   gen_started, count, batch_size, dark_mode, q_before, handed,
                   moves, records, codec_in, runs, stored_before>>

\* State().from_hex(hex_str)
CodecFromHex ==
    /\ pc = "codec_parse"
    /\ codec_out' = Append(codec_out, from_hex(codec_out[Len(codec_out)]))
    /\ pc' = "codec_unpack"
    /\ UNCHANGED <<clock, files, dirs, trie, handler, pending, ret, in_pq, qc, alt_qc,
                   gen_started, count, batch_size, dark_mode, q_before, handed,
                   moves, records, codec_in, runs, stored_before>>

\* state.to_matrix() of the parsed state, and of the state holding the blob
CodecToMatrix ==
    /\ pc \in {"codec_unpack", "codec_blob"}
    /\ codec_out' = Append(codec_out,
                           IF pc = "codec_unpack"
                           THEN to_matrix(codec_out[Len(codec_out)])
                           ELSE to_matrix(codec_in.blob))
    /\ pc' = IF pc = "codec_unpack" THEN "codec_blob" ELSE "codec_repack"
    /\ UNCHANGED <<clock, files, dirs, trie, handler, pending, ret, in_pq, qc, alt_qc,
                   gen_started, count, batch_size, dark_mode, q_before, handed,
                   moves, records, codec_in, runs, stored_before>>

\* partitioned_filename(mode_dir, hex_str) for the identifier of the board
\* and for the identifier of the blob, as pack calls it
CodecFileName ==
    /\ pc = "codec_done"
    /\ \E dark \in BOOLEAN :
          codec_out' = codec_out
                       \o <<partitioned_filename(ModeDir(dark), codec_out[2]),
                            partitioned_filename(ModeDir(dark), to_hex(codec_out[6]))>>
    /\ pc' = "codec_named"
    /\ UNCHANGED <<clock, files, dirs, trie, handler, pending, ret, in_pq, qc, alt_qc,
                   gen_started, count, batch_size, dark_mode, q_before, handed,
                   moves, records, codec_in, runs, stored_before>>

NextCodec ==
    \/ CodecFromMatrix
    \/ CodecToHex
    \/ CodecFromHex
    \/ CodecToMatrix
    \/ CodecFileName

SpecCodec == InitCodec /\ [][NextCodec]_vars

(***************************************************************************)
(* Handler construction from outside input                                 *)
(*                                                                         *)
(* Handler(dark_mode, hex_str=...) and Handler(dark_mode, from_bytes=...)  *)
(* applied to strings and byte strings of any length and content.  The     *)
(* call either raises or leaves a handler with a matrix.                   *)
(***************************************************************************)

\* the characters int(_, 16) reads as a digit, among those the inputs use
HexChars ==
    {HexDigits[i] : i \in 1..16} \cup {"A", "B", "C", "D", "E", "F"}

\* hex_str[a:b] of Python: the slice is cut to the string, never an error
Slice(hex_str, a, b) ==
    LET hi == IF b < Len(hex_str) THEN b ELSE Len(hex_str)
    IN  IF a >= hi THEN <<>> ELSE [k \in 1..(hi - a) |-> hex_str[a + k]]

\* int(byte_pair, 16) raises ValueError: no digit, or a character that is none
int16_raises(byte_pair) ==
    \/ Len(byte_pair) = 0
    \/ \E k \in 1..Len(byte_pair) : byte_pair[k] \notin HexChars

RECURSIVE int16(_)
\* int(byte_pair, 16) of a string of digits
int16(byte_pair) ==
    IF Len(byte_pair) = 0 THEN 0
    ELSE 16 * int16(SubSeq(byte_pair, 1, Len(byte_pair) - 1))
         + HexValue(byte_pair[Len(byte_pair)])

\* State.from_hex on any string: the loop stops at the first pair int() rejects
from_hex_raises(hex_str) ==
    \E idx \in 0..31 : int16_raises(Slice(hex_str, idx * 2, idx * 2 + 2))

\* State.from_hex on a string it does not reject
from_hex_any(hex_str) ==
    [idx \in 1..32 |-> int16(Slice(hex_str, (idx - 1) * 2, (idx - 1) * 2 + 2))]

\* State.to_matrix raises IndexError: self.state[idx] past the end of the buffer
to_matrix_raises(state) == Len(state) < 32

\* the identifier and the blob of the starting position, the inputs' base
ParseHex == to_hex(from_matrix(StandardMatrix))

ParseBlob == from_matrix(StandardMatrix)

\* strings handed to Handler(hex_str=...): the identifier itself, with one
\* character replaced, cut short, or with characters added
HexInputs ==
    {ParseHex}
    \cup {[ParseHex EXCEPT ![k] = c] : k \in 1..64, c \in {"A", "F", "g", "7"}}
    \cup {SubSeq(ParseHex, 1, n) : n \in 0..63}
    \cup {ParseHex \o tail : tail \in {<<"0">>, <<"0", "0">>, <<"g">>}}

\* byte strings handed to Handler(from_bytes=...): the blob itself, with one
\* byte replaced, cut short, or with a byte added
BytesInputs ==
    {ParseBlob}
    \cup {[ParseBlob EXCEPT ![k] = b] : k \in 1..32, b \in {HORIZON, 16 * HORIZON, 16 * 7 + 9}}
    \cup {SubSeq(ParseBlob, 1, n) : n \in {0, 16, 31}}
    \cup {ParseBlob \o <<0>>}

InitParse ==
    /\ pc = "parse"
    /\ clock = Epoch
    /\ files = <<>>
    /\ dirs = {}
    /\ trie = {}
    /\ pending = <<>>
    /\ ret = FALSE
    /\ in_pq = FALSE
    /\ qc = None
    /\ alt_qc = None
    /\ gen_started = FALSE
    /\ count = 0
    /\ batch_size = 0
    /\ dark_mode = FALSE
    /\ q_before = <<>>
    /\ handed = <<>>
    /\ handler = None
    /\ moves = <<>>
    /\ records = <<>>
    /\ \/ \E hex_str \in HexInputs : codec_in = [hex_str |-> hex_str]
       \/ \E from_bytes \in BytesInputs : codec_in = [from_bytes |-> from_bytes]
    /\ codec_out = <<>>
    /\ runs = 0
    /\ stored_before = {}

\* Handler(dark_mode, hex_str=hex_str)
HandlerInitHex ==
    /\ pc = "parse"
    /\ "hex_str" \in DOMAIN codec_in
    /\ \E dark \in BOOLEAN :
          IF from_hex_raises(codec_in.hex_str)
          THEN /\ pc' = "raised"
               /\ codec_out' = <<"ValueError">>
               /\ UNCHANGED handler
          ELSE /\ pc' = "built"
               /\ codec_out' = <<from_hex_any(codec_in.hex_str)>>
               /\ handler' = [state |-> from_hex_any(codec_in.hex_str),
                              dark_mode |-> dark, unsafe_anchor |-> FALSE,
                              matrix |-> to_matrix(from_hex_any(codec_in.hex_str)),
                              has_alternate |-> FALSE, alternate_rules |-> <<>>]
    /\ UNCHANGED <<clock, files, dirs, trie, pending, ret, in_pq, qc, alt_qc,
                   gen_started, count, batch_size, dark_mode, q_before, handed,
                   moves, records, codec_in, runs, stored_before>>

\* Handler(dark_mode, from_bytes=from_bytes)
HandlerInitBytes ==
    /\ pc = "parse"
    /\ "from_bytes" \in DOMAIN codec_in
    /\ \E dark \in BOOLEAN :
          IF to_matrix_raises(codec_in.from_bytes)
          THEN /\ pc' = "raised"
               /\ codec_out' = <<"IndexError">>
               /\ UNCHANGED handler
          ELSE /\ pc' = "built"
               /\ codec_out' = <<codec_in.from_bytes>>
               /\ handler' = HandlerFromBytes(dark, codec_in.from_bytes)
    /\ UNCHANGED <<clock, files, dirs, trie, pending, ret, in_pq, qc, alt_qc,
                   gen_started, count, batch_size, dark_mode, q_before, handed,
                   moves, records, codec_in, runs, stored_before>>

NextParse ==
    \/ HandlerInitHex
    \/ HandlerInitBytes

SpecParse == InitParse /\ [][NextParse]_vars

(***************************************************************************)
(* Properties of the expansion engine                                      *)
(***************************************************************************)
\* the store files of a side
StoreFiles(fs, dark) == {p \in DOMAIN fs : IsPrefix(ModeDir(dark), p)}

\* the shards of a side's queue directory, with their bytes
QueueShards(fs, dark) ==
    [p \in ListDir(fs, generate_queue_dir(dark)) |-> fs[p]]

\* the successor blobs recorded in a store file
BlobsOf(bytes) ==
    {SubSeq(bytes, 35 * (k - 1) + 4, 35 * k) : k \in 1..(Len(bytes) \div 35)}

QueuesEmpty(fs) == QueueRecords(fs, FALSE) = <<>> /\ QueueRecords(fs, TRUE) = <<>>

\* C1: once the seed has been expanded and the drain passes have emptied both
\* queues, every successor blob recorded in a store file of a side has a store
\* file under the other side.
C1_SuccessorsStoredWhenDrained ==
    (pc = "idle" /\ QueuesEmpty(files)) =>
        \A dark \in BOOLEAN : \A p \in StoreFiles(files, dark) :
            \A blob \in BlobsOf(files[p]) :
                StoreFileName(~dark, blob) \in DOMAIN files

\* C2: when process_queue ends normally, the records that were in the drained
\* queue before the pass are those handed to pack followed by those still in the
\* queue, in their original order.
C2_NoRecordSkipped ==
    pc = "pq_done" => q_before = handed \o QueueRecords(files, dark_mode)

\* the store file pack is writing
OpenStoreFile ==
    IF pc = "pack_write" THEN {StoreFileName(handler.dark_mode, handler.state)} ELSE {}

AllStoreFiles(fs) == StoreFiles(fs, FALSE) \cup StoreFiles(fs, TRUE)

\* one step keeps every store file, changes the bytes of none that is closed, and
\* opens a store file for writing only when it does not exist yet
StoreFilesKept ==
    /\ \A p \in AllStoreFiles(files) :
          /\ p \in DOMAIN files'
          /\ p \notin OpenStoreFile => files'[p] = files[p]
    /\ (pc = "pack" /\ pc' = "pack_write") =>
          StoreFileName(handler.dark_mode, handler.state) \notin DOMAIN files

\* C3: over any sequence of pack and process_queue calls a store file is opened
\* for writing at most once, and once written it is never changed or deleted.
C3_StoreFileWrittenOnce == [][StoreFilesKept]_vars

\* a store file has been completed, and a later call of pack found it
C3_Witness ==
    /\ pc = "pack_ret"
    /\ ~ret
    /\ Len(files[StoreFileName(handler.dark_mode, handler.state)]) > 0

\* the step of pack that handles the first pending record
EnqueueStep ==
    /\ pc = "pack_write"
    /\ pending # <<>>
    /\ pending' = Tail(pending)

\* the other side's queue holds one more blob, at the end of one shard
AppendedTo(before, after, blob) ==
    \E f \in DOMAIN after :
        /\ Len(after[f]) >= 32
        /\ SubSeq(after[f], Len(after[f]) - 31, Len(after[f])) = blob
        /\ f \in DOMAIN before =>
              after[f] = before[f] \o blob \/ after[f] = blob
        /\ \A g \in (DOMAIN after) \ {f} : g \in DOMAIN before /\ after[g] = before[g]

EnqueueIffNotStored ==
    /\ (pc \in {"pack", "pack_write"} /\ handler # None) =>
          QueueShards(files', handler.dark_mode) = QueueShards(files, handler.dark_mode)
    /\ EnqueueStep =>
          LET blob == Head(pending).new_state_bytes
              other == ~handler.dark_mode
              stored == StoreFileName(other, blob) \in DOMAIN files
          IN  /\ stored => QueueShards(files', other) = QueueShards(files, other)
              /\ ~stored => AppendedTo(QueueShards(files, other),
                                       QueueShards(files', other), blob)

\* C4: while a position is expanded under a side, a successor blob is appended to
\* the other side's queue exactly when the successor has no store file under the
\* other side at that moment, and the side's own queue is never written.
C4_EnqueueIffNotStored == [][EnqueueIffNotStored]_vars

\* a successor was skipped because its store file exists under the other side
C4_Witness ==
    /\ pc = "pack_write"
    /\ pending # <<>>
    /\ StoreFileName(~handler.dark_mode, Head(pending).new_state_bytes) \in DOMAIN files
    /\ QueueRecords(files, ~handler.dark_mode) # <<>>

RECURSIVE FlatPairs(_)
\* the (source, destination) pairs of a rule list, in order
FlatPairs(rules) ==
    IF rules = <<>> THEN <<>>
    ELSE [j \in 1..Len(Head(rules)[2]) |-> <<Head(rules)[1], Head(rules)[2][j]>>]
         \o FlatPairs(Tail(rules))

\* the position a store record of parent describes: the source cell VOID, the
\* destination cell holding the piece that stood on the source
MovedMatrix(parent, src, dst) ==
    [r \in 1..8 |-> [c \in 1..8 |->
        IF <<8 - r, c - 1>> = dst THEN FlagAt(parent, src[1], src[2])
        ELSE IF <<8 - r, c - 1>> = src THEN VOID
        ELSE parent[r][c]]]

StoreFileWellFormed(h, bytes) ==
    LET pairs == FlatPairs(all_possible_rules(h))
    IN  /\ Len(bytes) = 35 * Len(pairs)
        /\ \A i \in 1..Len(pairs) :
              /\ bytes[35 * (i - 1) + 1] = 120
              /\ bytes[35 * (i - 1) + 2] = pairs[i][1][1] * 16 + pairs[i][1][2]
              /\ bytes[35 * (i - 1) + 3] = pairs[i][2][1] * 16 + pairs[i][2][2]
              /\ SubSeq(bytes, 35 * (i - 1) + 4, 35 * i)
                    = from_matrix(MovedMatrix(h.matrix, pairs[i][1], pairs[i][2]))

\* C5: after pack completes for a position, its store file is the concatenation
\* of N 35-byte records (0x78, source byte, destination byte, successor blob), N
\* being the number of (source, destination) pairs all_possible_rules returns; a
\* position with no move yields an empty file.
C5_StoreFileIsRecords ==
    (pc = "pack_ret" /\ ret) =>
        StoreFileWellFormed(handler, files[StoreFileName(handler.dark_mode, handler.state)])

\* pack has completed a store file of three records
C5_Witness ==
    /\ pc = "pack_ret"
    /\ ret
    /\ Len(files[StoreFileName(handler.dark_mode, handler.state)]) = 105

(***************************************************************************)
(* Properties of the move generator                                        *)
(***************************************************************************)
\* the coordinate a source or destination byte encodes
CoordOf(byte) == <<byte \div 16, byte % 16>>

\* the destinations the move table gives to an Anchor of the moving side
AnchorDestinations ==
    UNION {{moves[i][2][j] : j \in 1..Len(moves[i][2])} :
              i \in {n \in 1..Len(moves) :
                        IsAnchorFlag(FlagAt(handler.matrix, moves[n][1][1], moves[n][1][2]))}}

\* a square on the board that holds no piece of the moving side
OpenSquare(c) ==
    inbounds(c[1]) /\ inbounds(c[2]) /\ test_mode(handler, c[1], c[2]) # SAME_MODE

\* the opponent's unsafe set of the current board
UnsafeSet == AlternateRules(handler)

\* C6: for every record (src, dst, blob) written for a position, the successor
\* board equals the parent board except that the cell at src is VOID and the cell
\* at dst holds the piece that stood on src.
C6_SuccessorIsParentWithOneMove ==
    pc = "enumerated" =>
        \A i \in 1..Len(records) :
            to_matrix(records[i].new_state_bytes)
                = MovedMatrix(handler.matrix, CoordOf(records[i].source),
                              CoordOf(records[i].destination))

\* a record of a capture: the destination cell held a piece of the other side
C6_Witness ==
    /\ pc = "enumerated"
    /\ \E i \in 1..Len(records) :
          /\ FlagAt(handler.matrix, CoordOf(records[i].destination)[1],
                    CoordOf(records[i].destination)[2]) # VOID
          /\ FlagAt(to_matrix(records[i].new_state_bytes), CoordOf(records[i].source)[1],
                    CoordOf(records[i].source)[2]) = VOID

\* the Anchor of side dark on matrix is a destination of a piece of the other
\* side under the piece rules alone
AnchorAttacked(matrix, dark) ==
    LET state == from_matrix(matrix)
        anchor_coord == FindAnchor(HandlerFromHex(dark, to_hex(state), TRUE), 0)
    IN  /\ anchor_coord # None
        /\ InRules(anchor_coord, SweepRules(HandlerFromHex(~dark, to_hex(state), FALSE), 0))

\* C7: every move in a move table is legal in the strict sense: in the successor
\* position the moving side's Anchor is not attacked by any piece of the other
\* side under the piece rules.
C7_NoMoveExposesAnchor ==
    pc = "enumerated" =>
        \A i \in 1..Len(records) :
            ~AnchorAttacked(to_matrix(records[i].new_state_bytes), handler.dark_mode)

\* C8: no Anchor destination returned by all_possible_rules is in the opponent's
\* unsafe set of the current board, whether or not the side is in check.
C8_AnchorAvoidsUnsafeSet ==
    pc = "enumerated" =>
        \A d \in AnchorDestinations : ~InRules(d, UnsafeSet)

\* the Anchor is not in check, keeps a destination, and a neighbouring square
\* it could otherwise enter is in the unsafe set
C8_Witness ==
    /\ pc = "enumerated"
    /\ AnchorDestinations # {}
    /\ FindAnchor(handler, 0) # None
    /\ ~InRules(FindAnchor(handler, 0), UnsafeSet)
    /\ \E dh \in {-1, 0, 1}, da \in {-1, 0, 1} :
          LET c == <<FindAnchor(handler, 0)[1] + dh, FindAnchor(handler, 0)[2] + da>>
          IN  /\ <<dh, da>> # <<0, 0>>
              /\ OpenSquare(c)
              /\ InRules(c, UnsafeSet)

\* the moving side has an Anchor and its square is in the unsafe set
InCheck ==
    /\ FindAnchor(handler, 0) # None
    /\ InRules(FindAnchor(handler, 0), UnsafeSet)

\* C9: whenever the moving side's Anchor square is in the opponent's unsafe set,
\* all_possible_rules returns a single entry whose source is that Anchor, and
\* every record has the Anchor as its source.
C9_InCheckAnchorOnly ==
    (pc = "enumerated" /\ InCheck) =>
        /\ Len(moves) = 1
        /\ moves[1][1] = FindAnchor(handler, 0)
        /\ \A i \in 1..Len(records) :
              records[i].source = CoordByte(FindAnchor(handler, 0))

\* in check, with another piece of the moving side that has a move of its own
C9_Witness ==
    /\ pc = "enumerated"
    /\ InCheck
    /\ \E k \in 1..Len(SweepRules(handler, 0)) :
          /\ SweepRules(handler, 0)[k][1] # FindAnchor(handler, 0)
          /\ SweepRules(handler, 0)[k][2] # <<>>

\* the directions of the rays of a Slope, a Stride or a Radius
RayDirections(flag) ==
    IF flag \in {LIGHT_SLOPE, DARK_SLOPE}
    THEN {<<1, 1>>, <<1, -1>>, <<-1, 1>>, <<-1, -1>>}
    ELSE IF flag \in {LIGHT_STRIDE, DARK_STRIDE}
    THEN {<<1, 0>>, <<-1, 0>>, <<0, 1>>, <<0, -1>>}
    ELSE IF flag \in {LIGHT_RADIUS, DARK_RADIUS}
    THEN {<<1, 1>>, <<1, -1>>, <<-1, 1>>, <<-1, -1>>,
          <<1, 0>>, <<-1, 0>>, <<0, 1>>, <<0, -1>>}
    ELSE {}

\* the rays on which a piece of the other side attacks the Anchor at anchor_coord:
\* <<p, d, n>> with the piece at p, n steps of d away, and only VOID in between
AttackingRays(anchor_coord) ==
    {x \in {<<<<h, a>>, d, n>> : h \in 0..7, a \in 0..7,
                d \in {<<1, 1>>, <<1, -1>>, <<-1, 1>>, <<-1, -1>>,
                       <<1, 0>>, <<-1, 0>>, <<0, 1>>, <<0, -1>>}, n \in 1..7} :
        /\ test_mode(handler, x[1][1], x[1][2]) = DIFFERENT_MODE
        /\ x[2] \in RayDirections(FlagAt(handler.matrix, x[1][1], x[1][2]))
        /\ <<x[1][1] + x[3] * x[2][1], x[1][2] + x[3] * x[2][2]>> = anchor_coord
        /\ \A m \in 1..(x[3] - 1) :
              FlagAt(handler.matrix, x[1][1] + m * x[2][1], x[1][2] + m * x[2][2]) = VOID}

\* the squares of an attacking ray between the piece and the Anchor, and the
\* square directly behind the Anchor
RaySquares(x) ==
    {<<x[1][1] + m * x[2][1], x[1][2] + m * x[2][2]>> : m \in 1..(x[3] - 1)}
    \cup {<<x[1][1] + (x[3] + 1) * x[2][1], x[1][2] + (x[3] + 1) * x[2][2]>>}

\* C10: if a Slope, Stride or Radius of the other side attacks the moving side's
\* Anchor along a ray, no Anchor destination is a square between the attacker and
\* the Anchor or the square directly behind the Anchor; in scenario S4, light to
\* move, the table has the single source (0,4) and no destination (1,4).
C10_NoAnchorMoveAlongAttackingRay ==
    pc = "enumerated" =>
        /\ FindAnchor(handler, 0) # None =>
              \A x \in AttackingRays(FindAnchor(handler, 0)) :
                  AnchorDestinations \cap RaySquares(x) = {}
        /\ (handler.matrix = ScenarioS4 /\ ~handler.dark_mode) =>
              /\ Len(moves) = 1
              /\ moves[1][1] = <<0, 4>>
              /\ ~InRules(<<1, 4>>, moves)

\* an attacked Anchor whose square directly behind, on the ray, is on the board
\* and free of its own pieces, and which still has a destination
C10_Witness ==
    /\ pc = "enumerated"
    /\ FindAnchor(handler, 0) # None
    /\ AnchorDestinations # {}
    /\ \E x \in AttackingRays(FindAnchor(handler, 0)) :
          OpenSquare(<<x[1][1] + (x[3] + 1) * x[2][1], x[1][2] + (x[3] + 1) * x[2][2]>>)

\* the pieces of the moving side, other than the Anchor, that alone stand
\* between the Anchor and a Slope, Stride or Radius of the other side on its ray
ShieldingPieces ==
    IF FindAnchor(handler, 0) = None THEN {}
    ELSE {p \in {<<h, a>> : h \in 0..7, a \in 0..7} :
            /\ test_mode(handler, p[1], p[2]) = SAME_MODE
            /\ ~IsAnchorFlag(FlagAt(handler.matrix, p[1], p[2]))
            /\ \E h \in 0..7, a \in 0..7, n \in 2..7 :
                  \E d \in RayDirections(FlagAt(handler.matrix, h, a)) :
                      /\ test_mode(handler, h, a) = DIFFERENT_MODE
                      /\ <<h + n * d[1], a + n * d[2]>> = FindAnchor(handler, 0)
                      /\ \E m \in 1..(n - 1) :
                            /\ <<h + m * d[1], a + m * d[2]>> = p
                            /\ \A k \in (1..(n - 1)) \ {m} :
                                  FlagAt(handler.matrix, h + k * d[1], a + k * d[2]) = VOID}

\* the entry of the move table for the source p, <<>> when it has none
EntryOf(p) ==
    IF \E i \in 1..Len(moves) : moves[i][1] = p
    THEN moves[CHOOSE i \in 1..Len(moves) : moves[i][1] = p][2]
    ELSE <<>>

\* the destinations of the piece at p under the piece rules alone
PieceRules(p) ==
    LET plain == HandlerFromHex(handler.dark_mode, to_hex(handler.state), FALSE)
        entry == RulesOfCell(plain, p[1], p[2])
    IN  IF entry = <<>> THEN <<>> ELSE entry[1][2]

\* the successor of the current board by the move src -> dst
SuccessorMatrix(src, dst) == MovedMatrix(handler.matrix, src, dst)

S3Enumerated == pc = "enumerated" /\ handler.matrix = ScenarioS3 /\ ~handler.dark_mode

\* C11 as stated: in scenario S3 the side is not in check and the table holds the
\* Monotone's moves (1,4)->(2,4) and (1,4)->(3,4), which expose the Anchor; a
\* shielding piece keeps all its moves.
C11_AsStated ==
    /\ S3Enumerated =>
          /\ ~InCheck
          /\ EntryOf(<<1, 4>>) = << <<2, 4>>, <<3, 4>> >>
          /\ AnchorAttacked(SuccessorMatrix(<<1, 4>>, <<2, 4>>), FALSE)
          /\ AnchorAttacked(SuccessorMatrix(<<1, 4>>, <<3, 4>>), FALSE)
    /\ pc = "enumerated" =>
          \A p \in ShieldingPieces : EntryOf(p) = PieceRules(p)

\* C11: in scenario S3 the side is not in check and the move table holds the
\* Monotone's moves (1,4)->(2,4) and (1,4)->(3,4) (which keep the Monotone on the
\* column, so the Anchor stays shielded); in general, when the side is not in
\* check, a piece shielding its Anchor from a ray piece keeps all the moves the
\* piece rules give it, those that expose the Anchor included.
C11_ShieldingPieceKeepsMoves ==
    /\ S3Enumerated =>
          /\ ~InCheck
          /\ EntryOf(<<1, 4>>) = << <<2, 4>>, <<3, 4>> >>
          /\ ~AnchorAttacked(SuccessorMatrix(<<1, 4>>, <<2, 4>>), FALSE)
          /\ ~AnchorAttacked(SuccessorMatrix(<<1, 4>>, <<3, 4>>), FALSE)
    /\ (pc = "enumerated" /\ ~InCheck) =>
          \A p \in ShieldingPieces : EntryOf(p) = PieceRules(p)

\* a shielding piece has a move in the table that exposes its Anchor
C11_Witness ==
    /\ pc = "enumerated"
    /\ ~InCheck
    /\ \E p \in ShieldingPieces :
          \E j \in 1..Len(EntryOf(p)) :
              AnchorAttacked(SuccessorMatrix(p, EntryOf(p)[j]), handler.dark_mode)

(***************************************************************************)
(* Properties of the drain pass and of the shard queue                     *)
(***************************************************************************)
\* C12: a drain pass with batch_size = k removes at most k records from the
\* queue it drains; with batch_size = 1 one blob is popped and every other
\* queued blob is still in the queue after the pass.
C12_PassRemovesAtMostBatch ==
    pc = "pq_done" =>
        /\ Len(q_before) - Len(QueueRecords(files, dark_mode)) <= batch_size
        /\ (batch_size = 1 /\ q_before # <<>>) =>
              QueueRecords(files, dark_mode) = Tail(q_before)

\* the shards of the queue directory, by sorted name
SortedShards == SortedPaths(ListDir(files, QueueDir))

\* ceil(32 * n / max_size)
ShardsFor(n, max_size) == (32 * n + max_size - 1) \div max_size

\* one controller has written every blob written so far
OneWriter == pc = "q_write" /\ count = Len(records)

\* C13: writing 10 blobs through one QueueController with max_size = 128 leaves
\* three shard files of 128, 128 and 64 bytes; in general writing n blobs leaves
\* ceil(32n / max_size) shards that together hold all n blobs in write order.
C13_ShardsHoldEveryBlob ==
    OneWriter =>
        /\ Len(SortedShards) = ShardsFor(count, qc.max_size)
        /\ QueueRecords(files, FALSE) = records
        /\ (count = 10 /\ qc.max_size = 128) =>
              [i \in 1..Len(SortedShards) |-> Len(files[SortedShards[i]])] = <<128, 128, 64>>

\* the blobs of a log are in the order they were written
InWriteOrder(log) == \A i \in 1..(Len(log) - 1) : log[i][1] < log[i + 1][1]

\* C14: the queue is FIFO: a reader yields the blobs of a queue directory in the
\* order they were written, within a shard and across shards, and the sorted
\* order of the shard names is the order in which the shards were created.
C14_ReaderYieldsInWriteOrder ==
    /\ pc \in {"q_read", "q_drained"} =>
          /\ InWriteOrder(handed)
          /\ Len(handed) <= Len(q_before)
          /\ handed = SubSeq(q_before, 1, Len(handed))
    /\ pc = "q_drained" => handed = q_before
    /\ \A i \in 1..(Len(SortedShards) - 1) :
          \A x \in 1..(Len(files[SortedShards[i]]) \div 32),
             y \in 1..(Len(files[SortedShards[i + 1]]) \div 32) :
                files[SortedShards[i]][32 * x] < files[SortedShards[i + 1]][32 * y]

\* a reader has yielded the blobs of two shards and reached the end of the queue
C14_Witness ==
    /\ pc = "q_drained"
    /\ Len(handed) > 4
    /\ Len(qc.queue_files) = 2

\* a step that leaves one with scope of the controller in use
ScopeExit ==
    /\ pc \in {"q_write", "q_read", "q_drained"}
    /\ qc'.usage_count = qc.usage_count - 1

NestedScopes ==
    /\ (pc # "q_idle" /\ qc # None) => qc.usage_count > 0
    /\ qc # None => qc.usage_count >= 0
    /\ qc' # None => qc'.usage_count >= 0
    /\ (ScopeExit /\ qc'.usage_count > 0) =>
          /\ files' = files
          /\ pc' = pc
          /\ qc' = [qc EXCEPT !.usage_count = @ - 1]
    /\ (ScopeExit /\ qc'.usage_count = 0) =>
          /\ ~qc'.writer_open
          /\ ~qc'.reader_open
          /\ qc.reader_open =>
                files' = [files EXCEPT ![qc.active_reader_name] = ReaderTail(qc, files)]
          /\ ~qc.reader_open => files' = files
    /\ (pc # "q_idle" /\ qc.writer_open /\ ~qc'.writer_open) =>
          ScopeExit /\ qc'.usage_count = 0

\* C15: for any nesting of QueueController scopes, the active writer is closed and
\* a partially read shard is rewritten only by the exit that brings usage_count
\* back to 0; an inner exit leaves the files open and the controller usable, and
\* usage_count never goes below 0.
C15_OnlyOutermostExitReleases == [][NestedScopes]_vars

\* an inner exit has left the controller with its writer open
C15_Witness ==
    /\ pc = "q_write"
    /\ ret
    /\ qc.usage_count = 1
    /\ qc.writer_open
    /\ count > 0

\* the first step of pack, for a position whose store file exists
PackOfStored ==
    /\ pc = "pack"
    /\ pc' # pc
    /\ StoreFileName(handler.dark_mode, handler.state) \in DOMAIN files

PackOfStoredChangesNothing ==
    PackOfStored =>
        /\ pc' = "pack_ret"
        /\ ~ret'
        /\ files' = files
        /\ dirs' = dirs
        /\ handler' = handler
        /\ ~handler'.has_alternate
        /\ pending' = pending
        /\ qc' = qc
        /\ alt_qc' = alt_qc

\* C16: calling pack for a (side, board) whose store file already exists returns
\* False and changes nothing: every store file and the shards of both queues are
\* unchanged, and no move enumeration takes place.
C16_PackOfStoredChangesNothing == [][PackOfStoredChangesNothing]_vars

\* inside a drain pass, pack has returned False for a blob whose store file exists
C16_Witness ==
    /\ pc = "pack_ret"
    /\ in_pq
    /\ ~ret
    /\ ~handler.has_alternate
    /\ StoreFileName(handler.dark_mode, handler.state) \in DOMAIN files

\* C17: when the store directory exists, one run of the entry point drains both
\* queues to completion: it returns only in a state where both queues are empty.
C17_RunDrainsBothQueues ==
    pc = "main_done" => QueuesEmpty(files)

\* bytes a is what is left of bytes b after some of its head was read
IsSuffix(a, b) == Len(a) <= Len(b) /\ SubSeq(b, Len(b) - Len(a) + 1, Len(b)) = a

\* the files open for writing: the active shard of a controller and the store file
LiveWriters ==
    (IF qc # None /\ qc.writer_open THEN {qc.active_writer_name} ELSE {})
    \cup (IF alt_qc # None /\ alt_qc.writer_open THEN {alt_qc.active_writer_name} ELSE {})
    \cup OpenStoreFile

\* the shards open for reading
LiveReaders ==
    (IF qc # None /\ qc.reader_open THEN {qc.active_reader_name} ELSE {})
    \cup (IF alt_qc # None /\ alt_qc.reader_open THEN {alt_qc.active_reader_name} ELSE {})

DrainIsolated ==
    in_pq =>
        LET own == generate_queue_dir(dark_mode)
            other == generate_queue_dir(~dark_mode)
        IN  /\ \A f \in LiveReaders : dirname(f) = own
            /\ \A f \in LiveWriters : dirname(f) # own
            /\ LiveReaders \cap LiveWriters = {}
            /\ ~(qc.writer_open /\ alt_qc.writer_open
                 /\ qc.active_writer_name = alt_qc.active_writer_name)
            /\ ~qc.writer_open
            /\ ~alt_qc.reader_open
            \* the drained side's shards are only read, deleted or cut to their tail
            /\ \A f \in ListDir(files', own) :
                  f \in ListDir(files, own) /\ IsSuffix(files'[f], files[f])
            /\ QueueShards(files', dark_mode) # QueueShards(files, dark_mode) =>
                  pc \in {"pq_read", "pq_exit"}
            \* the other side's shards are only created or written by pack
            /\ ListDir(files, other) \subseteq ListDir(files', other)
            /\ QueueShards(files', ~dark_mode) # QueueShards(files, ~dark_mode) =>
                  pc = "pack_write"

\* C18: during a drain pass for side C, every read, delete and tail rewrite touches
\* only shards in C's queue directory and every append only shards in the other
\* side's queue directory; no shard is open for reading and for writing at the
\* same time, and every file has at most one live writer.
C18_DrainUsesDisjointDirectories == [][DrainIsolated]_vars

\* inside a pass, a shard of the drained side is open for reading while pack has
\* a shard of the other side open for writing
C18_Witness ==
    /\ in_pq
    /\ pc = "pack_write"
    /\ qc.reader_open
    /\ alt_qc.writer_open
    /\ qc.reader_pos > 0

\* C19: the codec round-trips exactly: a board of 4-bit cells that is packed,
\* written as hex, parsed and unpacked comes back cell for cell, and a
\* 32-byte blob that is unpacked and packed again comes back byte for byte.
C19_CodecRoundTrips ==
    /\ Len(codec_out) >= 4 => codec_out[4] = codec_in.board
    /\ pc = "codec_done" => codec_out[6] = codec_in.blob

\* both round trips made, on a board with a cell of 15 and a blob with a byte
\* above 127 whose hex holds a letter
C19_Witness ==
    /\ pc = "codec_done"
    /\ codec_out[4] = codec_in.board
    /\ codec_out[6] = codec_in.blob
    /\ \E r \in 1..8, c \in 1..8 : codec_in.board[r][c] = 15
    /\ \E k \in 1..32 : codec_in.blob[k] > 127
    /\ \E k \in 1..64 : codec_out[2][k] \in {"a", "b", "c", "d", "e", "f"}

\* C20: byte i (0..31) of the blob is sixteen times the cell at flat position
\* 2i plus the cell at flat position 2i+1, flat position 0 being cell [0][0]
\* and positions running along the rows; the identifier is 64 characters of
\* lowercase hex, two per byte in byte order, high half first.
C20_BlobAndIdentifierLayout ==
    /\ Len(codec_out) >= 1 =>
          \A i \in 0..31 :
              codec_out[1][i + 1]
                  = codec_in.board[((2 * i) \div 8) + 1][((2 * i) % 8) + 1] * 16
                    + codec_in.board[((2 * i + 1) \div 8) + 1][((2 * i + 1) % 8) + 1]
    /\ Len(codec_out) >= 2 =>
          /\ Len(codec_out[2]) = 64
          /\ \A k \in 1..64 :
                codec_out[2][k] \in {"0","1","2","3","4","5","6","7","8","9",
                                     "a","b","c","d","e","f"}
          /\ \A i \in 0..31 :
                HexValue(codec_out[2][2 * i + 1]) * 16 + HexValue(codec_out[2][2 * i + 2])
                    = codec_out[1][i + 1]
    /\ Len(codec_out) >= 5 =>
          \A i \in 0..31 :
              codec_in.blob[i + 1]
                  = codec_out[5][((2 * i) \div 8) + 1][((2 * i) % 8) + 1] * 16
                    + codec_out[5][((2 * i + 1) \div 8) + 1][((2 * i + 1) % 8) + 1]

\* the identifier of a board whose first two cells are 10 and 11 and whose
\* last two are 9 and 14 has been written: it starts "ab" and ends "9e"
C20_Witness ==
    /\ pc = "codec_parse"
    /\ codec_in.board[1][1] = 10
    /\ codec_in.board[1][2] = 11
    /\ codec_in.board[8][7] = 9
    /\ codec_in.board[8][8] = 14
    /\ codec_out[1][1] = 171
    /\ codec_out[1][32] = 158
    /\ codec_out[2][1] = "a"
    /\ codec_out[2][2] = "b"
    /\ codec_out[2][63] = "9"
    /\ codec_out[2][64] = "e"

\* C21: malformed codec input never becomes a board: a handler is built from
\* a string only if it is exactly 64 characters of lowercase hex, and from a
\* byte string only if it is 32 bytes long and no half of a byte is a
\* forbidden cell code (HORIZON, or a value that is no flag at all).
C21_MalformedInputRejected ==
    pc = "built" =>
        IF "hex_str" \in DOMAIN codec_in
        THEN /\ Len(codec_in.hex_str) = 64
             /\ \A k \in 1..64 : codec_in.hex_str[k] \in {HexDigits[i] : i \in 1..16}
        ELSE /\ Len(codec_in.from_bytes) = 32
             /\ \A k \in 1..32 :
                   /\ codec_in.from_bytes[k] \div 16 \notin {7, HORIZON, 9}
                   /\ codec_in.from_bytes[k] % 16 \notin {7, HORIZON, 9}

(***************************************************************************)
(* Properties of the built-in seed board                                   *)
(***************************************************************************)

\* C22: the seed board packed when no store exists has the light Anchor on
\* (0,4) and the dark Anchor on (7,4), and its identifier begins with
\* dbcefcbd aaaaaaaa 00000000.
C22_SeedBoardLayout ==
    (pc = "pack" /\ ~in_pq /\ runs = 1) =>
        /\ FlagAt(handler.matrix, 0, 4) = LIGHT_ANCHOR
        /\ FlagAt(handler.matrix, 7, 4) = DARK_ANCHOR
        /\ SubSeq(to_hex(handler.state), 1, 24)
              = <<"d","b","c","e","f","c","b","d">>
                \o [k \in 1..8 |-> "a"] \o [k \in 1..8 |-> "0"]

\* the moves scenario S1 lists, as <<source, destination>> pairs
S1Moves ==
    {<<<<1, a>>, <<2, a>>>> : a \in 0..7}
    \cup {<<<<1, a>>, <<3, a>>>> : a \in 0..7}
    \cup {<<<<0, 1>>, <<2, 0>>>>, <<<<0, 1>>, <<2, 2>>>>,
          <<<<0, 6>>, <<2, 5>>>>, <<<<0, 6>>, <<2, 7>>>>}

\* the <<source, destination>> pairs of the records of a store file
StoredMoves(bytes) ==
    {<< <<bytes[35 * (k - 1) + 2] \div 16, bytes[35 * (k - 1) + 2] % 16>>,
        <<bytes[35 * (k - 1) + 3] \div 16, bytes[35 * (k - 1) + 3] % 16>> >>
        : k \in 1..(Len(bytes) \div 35)}

\* the store file of the seed board under the light side
SeedFile == StoreFileName(FALSE, from_matrix(StandardMatrix))

\* C23: expanding the seed board with light to move yields exactly 20
\* records (8 single pushes, 8 double pushes, the 4 Pivot moves of S1), and
\* the dark queue then holds exactly 20 blobs.
C23_SeedYieldsTwentyRecords ==
    (pc = "idle" /\ runs = 1) =>
        /\ SeedFile \in DOMAIN files
        /\ Len(files[SeedFile]) = 35 * 20
        /\ StoredMoves(files[SeedFile]) = S1Moves
        /\ Len(QueueRecords(files, TRUE)) = 20

\* the first run is over: the seed's store file is written, with the double
\* push (1,4)->(3,4) and the Pivot move (0,6)->(2,5) among its records, and
\* the dark queue holds blobs
C23_Witness ==
    /\ pc = "idle"
    /\ runs = 1
    /\ SeedFile \in DOMAIN files
    /\ <<<<1, 4>>, <<3, 4>>>> \in StoredMoves(files[SeedFile])
    /\ <<<<0, 6>>, <<2, 5>>>> \in StoredMoves(files[SeedFile])
    /\ Len(QueueRecords(files, TRUE)) = 20
    /\ QueueRecords(files, FALSE) = <<>>

(***************************************************************************)
(* Properties of the order and the content of the move table               *)
(***************************************************************************)

\* (horizon, axis) order: horizon first, then axis
CoordLeq(a, b) == a[1] < b[1] \/ (a[1] = b[1] /\ a[2] <= b[2])

\* C24: the records of a store file are ordered by source square,
\* horizon-major and axis-minor from horizon 0: the source of an earlier
\* record never comes after the source of a later one, so the records of
\* one source are contiguous.
C24_RecordsOrderedBySource ==
    pc = "enumerated" =>
        \A i \in 1..Len(records) : \A j \in i..Len(records) :
            /\ CoordLeq(CoordOf(records[i].source), CoordOf(records[j].source))
            /\ records[i].source = records[j].source =>
                  \A k \in i..j : records[k].source = records[i].source

\* records of three sources at least, two of them on one horizon and one on
\* another, the first source with several records
C24_Witness ==
    /\ pc = "enumerated"
    /\ Len(records) >= 4
    /\ records[1].source = records[2].source
    /\ \E i, j \in 1..Len(records) :
          /\ i < j
          /\ CoordOf(records[i].source)[1] = CoordOf(records[j].source)[1]
          /\ CoordOf(records[i].source)[2] < CoordOf(records[j].source)[2]
    /\ \E i, j \in 1..Len(records) :
          /\ i < j
          /\ CoordOf(records[i].source)[1] < CoordOf(records[j].source)[1]
          /\ CoordOf(records[i].source)[2] > CoordOf(records[j].source)[2]

\* the entries of the move table whose source holds a Monotone of the moving
\* side on the given horizon
MonotoneEntries(horizon) ==
    {i \in 1..Len(moves) :
        /\ moves[i][1][1] = horizon
        /\ FlagAt(handler.matrix, moves[i][1][1], moves[i][1][2])
              = (IF handler.dark_mode THEN DARK_MONOTONE ELSE LIGHT_MONOTONE)}

\* the destinations of entry i, as a set
Destinations(i) == {moves[i][2][k] : k \in 1..Len(moves[i][2])}

\* the diagonal captures of the Monotone of entry i: the cells one horizon
\* ahead and one axis aside that hold a piece of the other side
DiagonalCaptures(i) ==
    LET forward == moves[i][1][1] + (IF handler.dark_mode THEN -1 ELSE 1)
    IN  {<<forward, a>> : a \in {x \in {moves[i][1][2] - 1, moves[i][1][2] + 1} :
                                   /\ inbounds(forward) /\ inbounds(x)
                                   /\ test_mode(handler, forward, x) = DIFFERENT_MODE}}

\* C25 as stated: a light Monotone on horizon 0 and a dark Monotone on
\* horizon 7 have no forward push, one-step or two-step, among their
\* destinations, and their diagonal captures are generated.
C25_AsStated ==
    pc = "enumerated" =>
        \A i \in MonotoneEntries(IF handler.dark_mode THEN 7 ELSE 0) :
            /\ \A d \in Destinations(i) : d[2] # moves[i][1][2]
            /\ DiagonalCaptures(i) \subseteq Destinations(i)

\* C25: a light Monotone on horizon 7 and a dark Monotone on horizon 0 (the
\* horizon with nothing ahead) have no destination at all; a light Monotone
\* on horizon 0 and a dark Monotone on horizon 7 have the one-step push
\* exactly when the cell ahead is VOID, never the two-step push, and their
\* diagonal captures onto DIFFERENT cells are generated.
C25_EdgeMonotoneMoves ==
    pc = "enumerated" =>
        /\ \A i \in MonotoneEntries(IF handler.dark_mode THEN 0 ELSE 7) :
              Destinations(i) = {}
        /\ \A i \in MonotoneEntries(IF handler.dark_mode THEN 7 ELSE 0) :
              LET forward == IF handler.dark_mode THEN 6 ELSE 1
                  ahead == <<forward, moves[i][1][2]>>
              IN  /\ Destinations(i)
                        = DiagonalCaptures(i)
                          \cup (IF test_mode(handler, forward, moves[i][1][2]) = MC_VOID
                                THEN {ahead} ELSE {})

\* a light Monotone on horizon 0 that is given the push to the empty cell
\* ahead and a diagonal capture, on a board where light is to move
C25_Witness ==
    /\ pc = "enumerated"
    /\ ~handler.dark_mode
    /\ \E i \in MonotoneEntries(0) :
          /\ <<1, moves[i][1][2]>> \in Destinations(i)
          /\ DiagonalCaptures(i) # {}
          /\ DiagonalCaptures(i) \subseteq Destinations(i)
    /\ \E m \in EdgeBoards : handler.matrix = m

(***************************************************************************)
(* Properties of the store layout and of the queue's files                 *)
(***************************************************************************)

\* the path has the handler directory, six components that are characters
\* 8N..8N+7 of the identifier for N = 0..5, and the leaf <identifier>.raw
PathOfIdentifier(file_name, hex_str) ==
    \E dark \in BOOLEAN :
        /\ Len(file_name) = Len(ModeDir(dark)) + 6 + 1
        /\ SubSeq(file_name, 1, Len(ModeDir(dark))) = ModeDir(dark)
        /\ \A N \in 0..5 :
              file_name[Len(ModeDir(dark)) + N + 1] = SubSeq(hex_str, 8 * N + 1, 8 * N + 8)
        /\ file_name[Len(file_name)] = hex_str \o <<".", "r", "a", "w">>

C27_RotationSizeIsOneMebibyte ==
    /\ qc # None => qc.max_size = 1024 * 1024
    /\ alt_qc # None => alt_qc.max_size = 1024 * 1024

\* a write leaves every shard that was there with the bytes it had, at the
\* place they had
WriteKeepsShards ==
    Len(records') > Len(records) =>
        \A f \in DOMAIN files :
            f \in DOMAIN files' /\ IsPrefix(files[f], files'[f])

\* C28: a blob appended to a queue is never lost before a reader consumes
\* it: no write, be it a rotation or the first write of a new controller on
\* the directory, at any clock value (one that has not advanced included),
\* truncates or overwrites a shard that is there.
C28_WritesNeverTruncate == [][WriteKeepsShards]_vars

(***************************************************************************)
(* Properties of the Anchors                                               *)
(***************************************************************************)

\* the squares that hold an Anchor of the side that is not to move
OpposingAnchors ==
    {c \in (0..7) \X (0..7) :
        FlagAt(handler.matrix, c[1], c[2])
            = (IF handler.dark_mode THEN LIGHT_ANCHOR ELSE DARK_ANCHOR)}

\* two distinct squares that touch, by a side or by a corner
Adjacent(c, d) ==
    /\ c # d
    /\ c[1] - d[1] \in {-1, 0, 1}
    /\ c[2] - d[2] \in {-1, 0, 1}

\* C29: no emitted Anchor move puts the Anchor on a square adjacent to the
\* opposing Anchor, the capture of an opposing piece that stands next to its
\* own Anchor included.
C29_AnchorsNeverAdjacent ==
    pc = "enumerated" =>
        \A d \in AnchorDestinations : \A o \in OpposingAnchors : ~Adjacent(d, o)

\* the Anchors on a board, as a set of <<horizon, axis, flag>>
AnchorsOn(matrix) ==
    {<<h, a, FlagAt(matrix, h, a)>> : h \in 0..7, a \in 0..7} \cap
    ((0..7) \X (0..7) \X {LIGHT_ANCHOR, DARK_ANCHOR})

\* C30: no move of a move table captures an Anchor: the destination cell of
\* an emitted move never holds the opponent's Anchor, and every successor
\* board holds the Anchors of its parent, flag for flag (the moving side's
\* own Anchor possibly on another square).
C30_NoMoveCapturesAnAnchor ==
    pc = "enumerated" =>
        \A i \in 1..Len(records) :
            /\ ~IsAnchorFlag(FlagAt(handler.matrix, CoordOf(records[i].destination)[1],
                                    CoordOf(records[i].destination)[2]))
            /\ {x[3] : x \in AnchorsOn(to_matrix(records[i].new_state_bytes))}
                  = {x[3] : x \in AnchorsOn(handler.matrix)}

(***************************************************************************)
(* Properties of the piece rules                                           *)
(***************************************************************************)

\* every destination of a list of (source, destinations) entries is a board square
OnBoard(rules) ==
    \A i \in 1..Len(rules) : \A j \in 1..Len(rules[i][2]) :
        rules[i][2][j][1] \in 0..7 /\ rules[i][2][j][2] \in 0..7

\* C31: every destination produced by any rule, in the standard pass and in
\* the unsafe pass (the Monotone's two diagonal squares included), has
\* horizon and axis in 0..7: the unsafe set holds board squares only, and
\* every source or destination byte of a record names a board square.
C31_DestinationsOnBoard ==
    pc = "enumerated" =>
        /\ OnBoard(moves)
        /\ OnBoard(handler.alternate_rules)
        /\ \A i \in 1..Len(records) :
              /\ records[i].source \div 16 \in 0..7 /\ records[i].source % 16 \in 0..7
              /\ records[i].destination \div 16 \in 0..7
              /\ records[i].destination % 16 \in 0..7

(***************************************************************************)
(* Properties of the drain pass: what it creates and what it leaves        *)
(***************************************************************************)

\* the store files created since the pass began
CreatedInPass == AllStoreFiles(files) \ stored_before

\* C32: a drain pass creates at most batch_size new store files: the pass
\* counter advances only when pack returns True, so it equals the number of
\* store files the pass has created whenever no pack is under way, and
\* records whose position is already packed are consumed without counting.
C32_PassCreatesAtMostBatch ==
    in_pq =>
        /\ Cardinality(CreatedInPass) <= batch_size
        /\ pc \in {"pq_read", "pq_exit", "pq_done"} => count = Cardinality(CreatedInPass)
        /\ count <= Len(handed)

\* a pass that is over, in which a record of a position already packed was
\* handed to pack and not counted, and a store file was created
C32_Witness ==
    /\ pc = "pq_done"
    /\ Len(handed) > count
    /\ count >= 1
    /\ Cardinality(CreatedInPass) = count

\* the shards of the queue directory a pass drains
DrainedShards(fs) == ListDir(fs, generate_queue_dir(dark_mode))

\* one step of a pass: a shard of the drained directory goes only when none
\* of its bytes is unread (it is the one being read and the reader is at its
\* end, or it holds nothing), and the step that ends the pass leaves no shard
\* without an unread record
ShardsGoWhenConsumed ==
    (in_pq /\ in_pq') =>
        /\ \A p \in DrainedShards(files) \ DrainedShards(files') :
              Len(files[p]) = (IF qc.active_reader /\ p = qc.active_reader_name
                               THEN qc.reader_pos ELSE 0)
        /\ pc' = "pq_done" => \A p \in DrainedShards(files') : Len(files'[p]) > 0

\* C33: a shard is removed once fully consumed: it is deleted only after its
\* last record has been yielded, and when a drain pass ends the queue
\* directory holds no shard all of whose records have been read.
C33_ShardRemovedOnceConsumed == [][ShardsGoWhenConsumed]_vars

\* C34: in every reachable state every queue shard has a size that is a
\* multiple of 32 bytes and at most max_size (max_size being a multiple of
\* 32), shards rewritten with their unread tail at the end of a pass of the
\* reader included.
C34_ShardsAlignedAndBounded ==
    \A p \in ListDir(files, QueueDir) :
        /\ Len(files[p]) % 32 = 0
        /\ Len(files[p]) <= QueueMaxSize

\* a shard filled to max_size, and a shard that was rewritten with the tail
\* the reader left unread
C34_Witness ==
    /\ pc = "q_idle"
    /\ ret = FALSE
    /\ handed # <<>>
    /\ \E p \in ListDir(files, QueueDir) : Len(files[p]) = QueueMaxSize
    /\ \E p \in ListDir(files, QueueDir) :
          /\ Len(files[p]) > 0
          /\ Len(files[p]) < QueueMaxSize
          /\ files[p][1] > 1
          /\ handed[Len(handed)] = Blob(files[p][1] - 1)

(***************************************************************************)
(* Properties of the cell codes on disk                                    *)
(***************************************************************************)
\* the 13 cell codes a board may hold
PermittedFlags ==
    {VOID, LIGHT_MONOTONE, LIGHT_PIVOT, LIGHT_SLOPE, LIGHT_STRIDE, LIGHT_RADIUS,
     LIGHT_ANCHOR, DARK_MONOTONE, DARK_PIVOT, DARK_SLOPE, DARK_STRIDE,
     DARK_RADIUS, DARK_ANCHOR}

\* both nibbles of every byte of a blob are permitted codes
CellsPermitted(blob) ==
    \A k \in 1..Len(blob) :
        /\ blob[k] \div 16 \in PermittedFlags
        /\ blob[k] % 16 \in PermittedFlags

\* C35: the seed boards holding only the 13 permitted codes, every successor
\* blob in a record of a store file and every blob in a queue shard holds only
\* permitted codes, after any sequence of expansions and drain passes; no cell
\* is HORIZON (0x8).
C35_OnlyPermittedCodesOnDisk ==
    \A dark \in BOOLEAN :
        /\ \A p \in StoreFiles(files, dark) :
              \A blob \in BlobsOf(files[p]) : CellsPermitted(blob)
        /\ \A p \in ListDir(files, generate_queue_dir(dark)) :
              \A i \in 1..Len(RecordsOf(files[p])) :
                  CellsPermitted(RecordsOf(files[p])[i])

\* a drain pass has packed a position: both sides have store files with
\* records, and a queue shard holds a blob
C35_Witness ==
    /\ in_pq
    /\ count >= 1
    /\ \A dark \in BOOLEAN :
          \E p \in StoreFiles(files, dark) : BlobsOf(files[p]) # {}
    /\ \E dark \in BOOLEAN :
          \E p \in ListDir(files, generate_queue_dir(dark)) : Len(files[p]) >= 32

(***************************************************************************)
(* Properties of the unsafe pass and of the standard rules, piece by piece *)
(***************************************************************************)
\* the squares of the board
Squares == {<<h, a>> : h \in 0..7, a \in 0..7}

\* the flag on a square of the current board
Cell(c) == FlagAt(handler.matrix, c[1], c[2])

\* the flag is a piece of the dark (dark = TRUE) or of the light side
OnSide(flag, dark) == flag # VOID /\ ((flag > HORIZON) <=> dark)

\* the square n steps of d away from c
Step(c, d, n) == <<c[1] + n * d[1], c[2] + n * d[2]>>

\* the two forward-diagonal squares of a Monotone of the given side
ForwardDiagonals(c, dark) ==
    {<<c[1] + (IF dark THEN -1 ELSE 1), c[2] - 1>>,
     <<c[1] + (IF dark THEN -1 ELSE 1), c[2] + 1>>}

\* the eight L-offsets of a square
LOffsets(c) ==
    {x \in {<<c[1] + dh, c[2] + da>> : dh \in -2..2, da \in -2..2} :
        (x[1] - c[1]) * (x[1] - c[1]) + (x[2] - c[2]) * (x[2] - c[2]) = 5}

\* a relaxed ray of a piece of the given side: every square up to and including
\* the first one that is neither VOID nor the other side's Anchor
RelaxedRay(c, d, dark) ==
    {Step(c, d, n) : n \in {k \in 1..7 :
        /\ Step(c, d, k) \in Squares
        /\ \A m \in 1..(k - 1) :
              \/ Cell(Step(c, d, m)) = VOID
              \/ (IsAnchorFlag(Cell(Step(c, d, m)))
                    /\ OnSide(Cell(Step(c, d, m)), ~dark))}}

\* the relaxed rule of the piece on c, a Monotone, Pivot, Slope, Stride or Radius
RelaxedRule(c, dark) ==
    IF Cell(c) \in {LIGHT_MONOTONE, DARK_MONOTONE}
    THEN ForwardDiagonals(c, dark) \cap Squares
    ELSE IF Cell(c) \in {LIGHT_PIVOT, DARK_PIVOT}
    THEN LOffsets(c) \cap Squares
    ELSE UNION {RelaxedRay(c, d, dark) : d \in RayDirections(Cell(c))}

\* C36: the opponent's unsafe set is the union, over the opponent's pieces, of
\* the relaxed rules: a Monotone gives exactly its two forward-diagonal squares
\* whatever their occupant and no push; a Pivot gives every in-bounds L-offset;
\* a Slope, Stride or Radius ray includes VOID cells and continues, includes a
\* cell of its own side and stops, includes the other side's Anchor and
\* continues, and includes any other piece of the other side and stops.
C36_UnsafeSetIsRelaxedUnion ==
    pc = "enumerated" =>
        LET u == handler.alternate_rules
        IN  /\ {u[i][1] : i \in 1..Len(u)}
                  = {c \in Squares : OnSide(Cell(c), ~handler.dark_mode)}
            /\ \A i \in 1..Len(u) :
                  ~IsAnchorFlag(Cell(u[i][1])) =>
                      {u[i][2][j] : j \in 1..Len(u[i][2])}
                          = RelaxedRule(u[i][1], ~handler.dark_mode)

\* the standard-pass destinations of a Monotone of the given side on c
StandardMonotone(c, dark) ==
    LET o == IF dark THEN -1 ELSE 1
        one == <<c[1] + o, c[2]>>
        two == <<c[1] + 2 * o, c[2]>>
        open == one \in Squares /\ Cell(one) = VOID
        home == IF dark THEN c[1] = 6 ELSE c[1] = 1
    IN  {x \in {one} : open}
        \cup {x \in {two} : open /\ home /\ two \in Squares /\ Cell(two) = VOID}
        \cup {x \in ForwardDiagonals(c, dark) \cap Squares : OnSide(Cell(x), ~dark)}

\* the entries of the move table whose source holds one of the given flags
EntriesOf(flags) == {i \in 1..Len(moves) : Cell(moves[i][1]) \in flags}

\* the destinations of an entry of the move table, as a set
DestinationSet(i) == {moves[i][2][j] : j \in 1..Len(moves[i][2])}

\* C37: in the standard pass a Monotone's destinations are exactly the
\* one-step forward square if in-bounds and VOID; the two-step forward square
\* only if the one-step square is VOID, the piece stands on its home rank
\* (light horizon 1, dark horizon 6) and the two-step square is in-bounds and
\* VOID; and each forward-diagonal square that is in-bounds and holds a piece
\* of the other side. Forward is +1 horizon for light and -1 for dark.
C37_MonotoneStandardMoves ==
    pc = "enumerated" =>
        \A i \in EntriesOf({LIGHT_MONOTONE, DARK_MONOTONE}) :
            /\ DestinationSet(i) = StandardMonotone(moves[i][1], handler.dark_mode)
            /\ Len(moves[i][2]) = Cardinality(DestinationSet(i))

\* a Monotone on its home rank with both pushes and a capture, and one
\* beside a VOID forward diagonal it does not take
C37_Witness ==
    /\ pc = "enumerated"
    /\ \E i \in EntriesOf({LIGHT_MONOTONE, DARK_MONOTONE}) :
          /\ Cardinality(DestinationSet(i)) = 3
          /\ <<moves[i][1][1] + (IF handler.dark_mode THEN -2 ELSE 2), moves[i][1][2]>>
                \in DestinationSet(i)
          /\ \E x \in ForwardDiagonals(moves[i][1], handler.dark_mode) \cap Squares :
                Cell(x) = VOID

\* a standard ray of a piece of the given side: the run of VOID squares from
\* the source, and the first square after it if it holds a piece of the other side
StandardRay(c, d, dark) ==
    {Step(c, d, n) : n \in {k \in 1..7 :
        /\ Step(c, d, k) \in Squares
        /\ \A m \in 1..(k - 1) : Cell(Step(c, d, m)) = VOID
        /\ (Cell(Step(c, d, k)) = VOID \/ OnSide(Cell(Step(c, d, k)), ~dark))}}

RayFlags ==
    {LIGHT_SLOPE, DARK_SLOPE, LIGHT_STRIDE, DARK_STRIDE, LIGHT_RADIUS, DARK_RADIUS}

\* C38: in the standard pass each ray of a Slope (4 diagonals), Stride (4
\* orthogonals) or Radius (all 8) yields the maximal run of VOID cells from
\* the source, plus the first non-VOID cell if and only if it holds a piece
\* of the other side; nothing beyond the first non-VOID cell is yielded, and
\* a ray whose first cell holds a piece of the moving side yields nothing.
C38_RaysStopAtFirstPiece ==
    pc = "enumerated" =>
        \A i \in EntriesOf(RayFlags) :
            /\ DestinationSet(i)
                  = UNION {StandardRay(moves[i][1], d, handler.dark_mode) :
                              d \in RayDirections(Cell(moves[i][1]))}
            /\ Len(moves[i][2]) = Cardinality(DestinationSet(i))

\* a ray piece with one ray shut by a piece of its own side on the first
\* cell, and one ray that crosses a VOID cell, captures, and has a square
\* behind the captured piece
C38_Witness ==
    /\ pc = "enumerated"
    /\ \E i \in EntriesOf(RayFlags) :
          \E d1, d2 \in RayDirections(Cell(moves[i][1])) :
              /\ Step(moves[i][1], d1, 1) \in Squares
              /\ OnSide(Cell(Step(moves[i][1], d1, 1)), handler.dark_mode)
              /\ Step(moves[i][1], d2, 3) \in Squares
              /\ Cell(Step(moves[i][1], d2, 1)) = VOID
              /\ OnSide(Cell(Step(moves[i][1], d2, 2)), ~handler.dark_mode)
              /\ Step(moves[i][1], d2, 2) \in DestinationSet(i)

\* the squares of a matrix that hold a piece, and those holding one of a side
Pieces(matrix) == {c \in Squares : FlagAt(matrix, c[1], c[2]) # VOID}

SidePieces(matrix, dark) == {c \in Squares : OnSide(FlagAt(matrix, c[1], c[2]), dark)}

\* C39: in the standard pass no move has a destination equal to its source
\* or occupied by a piece of the moving side: every destination cell is VOID
\* or holds a piece of the other side, so a successor has either the same
\* number of pieces as its parent or exactly one fewer, and never fewer
\* pieces of the moving side.
C39_NoMoveOntoOwnPiece ==
    pc = "enumerated" =>
        /\ \A i \in 1..Len(moves) : \A d \in DestinationSet(i) :
              /\ d # moves[i][1]
              /\ d \in Squares
              /\ (Cell(d) = VOID \/ OnSide(Cell(d), ~handler.dark_mode))
        /\ \A k \in 1..Len(records) :
              LET successor == to_matrix(records[k].new_state_bytes)
              IN  /\ Cardinality(Pieces(successor))
                        \in {Cardinality(Pieces(handler.matrix)),
                             Cardinality(Pieces(handler.matrix)) - 1}
                  /\ Cardinality(SidePieces(successor, handler.dark_mode))
                        = Cardinality(SidePieces(handler.matrix, handler.dark_mode))

\* a table with a capture and a move to a VOID square, on a board where a
\* piece of the moving side stands next to another of its side
C39_Witness ==
    /\ pc = "enumerated"
    /\ \E k \in 1..Len(records) :
          Cardinality(Pieces(to_matrix(records[k].new_state_bytes)))
              = Cardinality(Pieces(handler.matrix)) - 1
    /\ \E k \in 1..Len(records) :
          Cardinality(Pieces(to_matrix(records[k].new_state_bytes)))
              = Cardinality(Pieces(handler.matrix))
    /\ \E i \in EntriesOf({LIGHT_PIVOT, DARK_PIVOT}) :
          \E x \in LOffsets(moves[i][1]) \cap Squares :
              OnSide(Cell(x), handler.dark_mode)

(***************************************************************************)
(* Properties of the cached membership test                                *)
(***************************************************************************)
\* the positions the engine has met: the one being packed, those waiting in a
\* queue shard, and the successors recorded in the store files
KnownBlobs ==
    (IF handler = None THEN {} ELSE {handler.state})
    \cup UNION {{RecordsOf(files[p])[i] : i \in 1..Len(RecordsOf(files[p]))} :
                  p \in ListDir(files, generate_queue_dir(FALSE))
                        \cup ListDir(files, generate_queue_dir(TRUE))}
    \cup UNION {BlobsOf(files[p]) : p \in AllStoreFiles(files)}

\* the store file names of the known positions, under either side
KnownFileNames == {StoreFileName(d, b) : d \in BOOLEAN, b \in KnownBlobs}

\* C40: the cached membership test agrees with the filesystem: in every
\* reachable state check_and_create_path(f, is_file=True) returns True
\* exactly when the store file f exists on disk, before and after f is
\* created by pack, whatever was inserted into the trie earlier.
C40_CachedTestAgreesWithDisk ==
    \A f \in KnownFileNames : \A create_dir \in BOOLEAN :
        check_and_create_path(trie, files, dirs, f, TRUE, create_dir).ret
            <=> f \in DOMAIN files

\* the trie holds a store file found on disk and the directory of another
\* position's file, while a known position of that side has no file yet
C40_Witness ==
    /\ \E f \in KnownFileNames : f \in trie /\ f \in DOMAIN files
    /\ \E f \in KnownFileNames :
          /\ f \notin DOMAIN files
          /\ TrieExists(trie, SubSeq(f, 1, 3))
          /\ \E g \in AllStoreFiles(files) :
                SubSeq(g, 1, 3) = SubSeq(f, 1, 3) /\ dirname(g) \in trie

====
